---- MODULE Spec2Model ----
(***************************************************************************)
(* A model of the concurrent processing engine of the pipeline package:    *)
(*   - pipeline/processor.py   : job queue, worker pool, process_file      *)
(*   - pipeline/utils/metrics.py: PipelineMetrics                          *)
(*   - pipeline/watcher.py     : DebouncedHandler / FileWatcher            *)
(*   - pipeline/orchestrator.py: AgentOrchestrator                         *)
(*   - pipeline/memory/pinecone_service.py: PineconeMemory.upsert          *)
(*   - pipeline/cli.py         : the start command                         *)
(*                                                                         *)
(* The main specifications of the module (the others restrict one of them  *)
(* to the inputs of a single property and are introduced where used):      *)
(*   Spec        the pipeline: file system, watcher (untimed), queue,      *)
(*               workers, process_file and the metrics collector;          *)
(*   SpecCli     the pipeline as the start command drives it: start(),     *)
(*               then run(), which calls start() again;                    *)
(*   SpecFile    one worker, with the memory service in each of its states *)
(*               and an owner that may cancel the worker task;             *)
(*   SpecWatcher the debouncer on the asyncio loop with a discrete clock;  *)
(*   SpecWF      one execute_workflow call of the orchestrator.            *)
(* All coroutines run on one asyncio event loop, so each action is the     *)
(* code between two suspension points (await) of one task.                 *)
(***************************************************************************)
EXTENDS Integers, Sequences, FiniteSets, TLC

\* ---------------------------------------------------------------- bounds
\* concurrent_workers is drawn from 1..MaxWorkers
MaxWorkers == 2
\* at most MaxJobs paths are ever put into the processing queue
MaxJobs == 2
\* the watcher thread delivers at most MaxEvents file events
MaxEvents == 3
\* the loop clock runs from 0 to MaxTime ticks
MaxTime == 4
\* config.watcher.debounce_seconds, in ticks of the loop clock
Debounce == 2
\* config.processing.supported_extensions holds up to MaxExts entries
MaxExts == 2
\* a collector used on its own takes up to MaxRecords records
MaxRecords == 2

\* ------------------------------------------------------------ the inputs
\* the supported files that can appear in the data directory
Paths == {"a.txt", "b.txt"}
\* other files the watcher can report: a temporary file, a hidden file and
\* a file of an unsupported type
OtherPaths == {"c.tmp", ".h.txt", "N.BIN"}
AllPaths == Paths \cup OtherPaths
NoPath == "-"
\* st_size of each file, as stat() reports it
FileSize(p) == IF p = "a.txt" THEN 1 ELSE 2
\* extractor.__class__.__name__ of the extractor chosen for the file
FileType(p) == "TextExtractor"
\* "no ProcessingRecord" (None)
NoRecord == [file_path |-> NoPath, file_type |-> "-", file_size |-> 0, start_time |-> 0]
WorkerIds == 1..MaxWorkers

\* ------------------------------------------------------ names and patterns
\* a file name or a pattern is matched letter by letter: the letters of the
\* names, extensions and patterns that occur
Chars(s) ==
    CASE s = "a.txt" -> <<"a", ".", "t", "x", "t">>
      [] s = "b.txt" -> <<"b", ".", "t", "x", "t">>
      [] s = "sub.txt" -> <<"s", "u", "b", ".", "t", "x", "t">>
      [] s = "c.tmp" -> <<"c", ".", "t", "m", "p">>
      [] s = ".h.txt" -> <<".", "h", ".", "t", "x", "t">>
      [] s = "N.BIN" -> <<"N", ".", "B", "I", "N">>
      [] s = ".txt" -> <<".", "t", "x", "t">>
      [] s = "txt" -> <<"t", "x", "t">>
      [] s = ".md" -> <<".", "m", "d">>
      [] s = ".json" -> <<".", "j", "s", "o", "n">>
      [] s = ".csv" -> <<".", "c", "s", "v">>
      [] s = ".pdf" -> <<".", "p", "d", "f">>
      [] s = ".xlsx" -> <<".", "x", "l", "s", "x">>
      [] s = "*.tmp" -> <<"*", ".", "t", "m", "p">>
      [] s = "*.swp" -> <<"*", ".", "s", "w", "p">>
      [] s = ".*" -> <<".", "*">>

\* str.lower, letter by letter
LowerChar(c) ==
    CASE c = "N" -> "n" [] c = "B" -> "b" [] c = "I" -> "i" [] OTHER -> c
lower(cs) == [i \in 1..Len(cs) |-> LowerChar(cs[i])]

\* fnmatch of a name against a pattern with at most one `*`: the text before
\* the star is a prefix of the name, the text after it a suffix, and the two
\* do not overlap
fnmatch(name, pattern) ==
    LET stars == {i \in 1..Len(pattern) : pattern[i] = "*"} IN
    IF stars = {} THEN name = pattern
    ELSE LET k == CHOOSE i \in stars : TRUE
             before == k - 1
             after == Len(pattern) - k
         IN /\ Len(name) >= before + after
            /\ SubSeq(name, 1, before) = SubSeq(pattern, 1, before)
            /\ SubSeq(name, Len(name) - after + 1, Len(name))
                  = SubSeq(pattern, k + 1, Len(pattern))

\* Path(path).suffix: from the last dot of the name on, unless that dot is
\* the first or the last letter
suffix(name) ==
    LET dots == {i \in 1..Len(name) : name[i] = "."} IN
    IF dots = {} THEN <<>>
    ELSE LET k == CHOOSE i \in dots : \A j \in dots : j <= i IN
         IF k > 1 /\ k < Len(name) THEN SubSeq(name, k, Len(name)) ELSE <<>>

\* the default of config.processing.supported_extensions
DefaultExtensions == <<".txt", ".md", ".json", ".csv", ".pdf", ".xlsx">>
\* the default of config.watcher.ignore_patterns
ignore_patterns == <<"*.tmp", "*.swp", ".*">>
\* the sub-directories of the data directory
Directories == {"sub.txt"}

VARIABLES
    \* ---- file system
    exists,                 \* the files now present in the data directory
    outputs,                \* the source paths whose output artifact is written
    metrics_file,           \* the content of logs/metrics.json
    \* ---- FileWatcher
    watching,               \* the observer of self.watcher is running
    leaked,                 \* running observers self.watcher no longer refers to
    supported_extensions,   \* config.processing.supported_extensions
    existing,               \* the list process_existing last returned to a caller
    \* ---- PipelineProcessor
    concurrent_workers,     \* config.processing.concurrent_workers
    main,                   \* where the owner of the processor is
    queue,                  \* _processing_queue
    shutdown,               \* _shutdown
    pc,                     \* per worker task: its suspension point
    cur,                    \* per worker task: the file_path it holds
    memory_mode,            \* the state of the PineconeMemory service
    upserts,                \* history: the calls of memory.upsert and their results
    cancel_sent,            \* history: per worker task, it was cancelled
    artifact,               \* the text of the output artifact a workflow call wrote
    \* ---- PipelineMetrics
    files_processed, files_succeeded, files_failed, total_bytes_processed,
    records,                \* PipelineMetrics.records
    current,                \* PipelineMetrics._current
    started_at,             \* PipelineMetrics.started_at
    \* ---- a reader of the collector and of its file (the dashboard)
    loaded,                 \* the collector PipelineMetrics.from_file last returned
    summary,                \* what get_summary returned since the last change
    \* ---- the asyncio loop of the DebouncedHandler
    now,                    \* loop.time()
    ready,                  \* the loop's FIFO of handles ready to run
    timers,                 \* every TimerHandle made by call_later, by id
    pending,                \* DebouncedHandler.pending: path -> timer id, or 0
    loop_error,             \* a handle run by the loop raised
    nevents,                \* history: the events the watcher thread delivered
    last_event,             \* history: per path, when its last event came
    bursts,                 \* history: per path, the bursts of events begun
    callbacks,              \* history: per path, the calls of the callback
    drops,                  \* history: per path, the timers that found no file
    \* ---- AgentOrchestrator, one execute_workflow call
    parallel_steps,         \* workflow["parallel_steps"]
    generators,             \* _generators: the roles with a cached generator
    constructions,          \* history: per role, the generators constructed
    used,                   \* history: per step, which generator of its role it got
    other,                  \* a second execute_workflow call on the orchestrator
    wf_pc,                  \* where execute_workflow is
    group_index,            \* the group of the plan the loop is at
    step_state,             \* per step: idle, created, running, returned, raised
    intermediate_results,   \* context.intermediate_results
    agent_outputs,          \* agent_outputs, in insertion order
    steps_completed,        \* steps_completed
    errors,                 \* errors
    result,                 \* the WorkflowResult returned
    invoked,                \* history: the steps whose generator was called
    payloads,               \* history: per step, the content its generator was given
    suspended,              \* history: the steps whose generator call suspended
    finish_order,           \* history: the steps in the order they returned or raised
    \* ---- history (not program state)
    enq_log,                \* every path put into the queue, in order
    deq_log,                \* every path taken from the queue, in order
    returned                \* every finished process_file call, in order

fsVars == <<exists, outputs, metrics_file>>
watchVars == <<watching, leaked, supported_extensions, existing>>
procVars == <<concurrent_workers, main, queue, shutdown, pc, cur>>
metricVars == <<files_processed, files_succeeded, files_failed,
                total_bytes_processed, records, current, started_at>>
readerVars == <<loaded, summary>>
histVars == <<enq_log, deq_log, returned>>
extVars == <<memory_mode, upserts, cancel_sent, artifact>>
pipeVars == <<fsVars, watchVars, procVars, metricVars, histVars, extVars, readerVars>>
debVars == <<now, ready, timers, pending, loop_error, nevents, last_event, bursts,
            callbacks, drops>>
wfVars == <<parallel_steps, generators, constructions, used, other, wf_pc, group_index, step_state,
           intermediate_results, agent_outputs, steps_completed, errors, result,
           invoked, payloads, suspended, finish_order>>
\* what the actions of the processor leave alone
notPipe == <<debVars, wfVars, readerVars>>

\* ------------------------------------------------------- PipelineMetrics
\* `for r in self.records[-100:]`
KeepLast == 100

\* the metrics collector as one value, so that its methods are operators
Metrics ==
    [files_processed |-> files_processed, files_succeeded |-> files_succeeded,
     files_failed |-> files_failed, total_bytes_processed |-> total_bytes_processed,
     records |-> records, current |-> current, started_at |-> started_at]

\* cls(): a collector made at time t
EmptyMetrics(t) ==
    [files_processed |-> 0, files_succeeded |-> 0, files_failed |-> 0,
     total_bytes_processed |-> 0, records |-> <<>>, current |-> NoRecord,
     started_at |-> t]

\* start_processing: self._current = ProcessingRecord(...), whatever it held
start_processing(m, p, type, size, t) ==
    [m EXCEPT !.current = [file_path |-> p, file_type |-> type, file_size |-> size,
                           start_time |-> t]]

\* end_processing without `if self._current is None: return`: the call is
\* counted though there is no record to close
end_processing_unguarded(m, success, error, t) ==
    [m EXCEPT
        !.files_processed = @ + 1,
        !.files_succeeded = IF success THEN @ + 1 ELSE @,
        !.files_failed = IF success THEN @ ELSE @ + 1,
        !.total_bytes_processed = @ + m.current.file_size,
        !.records = IF m.current = NoRecord THEN @
                    ELSE Append(@, [file_path |-> m.current.file_path,
                                    file_type |-> m.current.file_type,
                                    file_size |-> m.current.file_size,
                                    start_time |-> m.current.start_time,
                                    end_time |-> t,
                                    success |-> success, error |-> error]),
        !.current = NoRecord]

\* end_processing: nothing when _current is None; else close and append it
end_processing(m, success, error, t) ==
    IF m.current = NoRecord THEN m
    ELSE [m EXCEPT
            !.files_processed = @ + 1,
            !.total_bytes_processed = @ + m.current.file_size,
            !.files_succeeded = IF success THEN @ + 1 ELSE @,
            !.files_failed = IF success THEN @ ELSE @ + 1,
            !.records = Append(@, [file_path |-> m.current.file_path,
                                   file_type |-> m.current.file_type,
                                   file_size |-> m.current.file_size,
                                   start_time |-> m.current.start_time,
                                   end_time |-> t,
                                   success |-> success, error |-> error]),
            !.current = NoRecord]

\* ProcessingRecord.duration_seconds of a closed record
duration_seconds(r) == r.end_time - r.start_time

\* success_rate, rounded to 2 places: in hundredths of a percent
success_rate(m) ==
    IF m.files_processed = 0 THEN 0
    ELSE (m.files_succeeded * 10000) \div m.files_processed

RECURSIVE SumDurations(_)
SumDurations(rs) ==
    IF rs = <<>> THEN 0 ELSE duration_seconds(Head(rs)) + SumDurations(Tail(rs))

\* average_processing_time over the records whose duration is not zero,
\* rounded to 3 places: in thousandths of a tick
average_processing_time(m) ==
    LET durations == SelectSeq(m.records, LAMBDA r : duration_seconds(r) # 0) IN
    IF durations = <<>> THEN 0
    ELSE (SumDurations(durations) * 1000) \div Len(durations)

\* uptime_seconds: datetime.now() - started_at
uptime_seconds(m, t) == t - m.started_at

\* datetime.isoformat and datetime.fromisoformat: the text and the time read
\* back from it; a text that is no ISO date makes fromisoformat raise
isoformat(t) == [text |-> "iso", t |-> t]
Malformed == [text |-> "malformed", t |-> 0]
is_isoformat(text) == text.text = "iso"
fromisoformat(text) == text.t

\* get_summary at time t
get_summary(m, t) ==
    [files_processed |-> m.files_processed,
     files_succeeded |-> m.files_succeeded,
     files_failed |-> m.files_failed,
     success_rate_percent |-> success_rate(m),
     total_bytes_processed |-> m.total_bytes_processed,
     average_processing_time_seconds |-> average_processing_time(m),
     uptime_seconds |-> uptime_seconds(m, t),
     started_at |-> isoformat(m.started_at)]
NoSummary == get_summary([EmptyMetrics(0) EXCEPT !.files_processed = -1], 0)

\* the keys of a record object of the file
RecordKeys == {"file_path", "file_type", "file_size", "duration_seconds", "success",
               "error"}
\* one record as save writes it
dump_record(r) ==
    [has |-> RecordKeys, file_path |-> r.file_path, file_type |-> r.file_type,
     file_size |-> r.file_size, duration_seconds |-> duration_seconds(r),
     success |-> r.success, error |-> r.error]

\* self.records[-100:]
first_records(rs) == SubSeq(rs, 1, IF Len(rs) > KeepLast THEN KeepLast ELSE Len(rs))

\* self.records, all of them
all_records(rs) == rs

last_records(rs) ==
    SubSeq(rs, IF Len(rs) > KeepLast THEN Len(rs) - KeepLast + 1 ELSE 1, Len(rs))

\* the content of a metrics file: absent, not JSON, or a JSON object
NoData == [summary |-> NoSummary, records |-> <<>>]
NoFile == [kind |-> "missing", data |-> NoData]
Garbage == [kind |-> "garbage", data |-> NoData]

\* save at time t: get_summary() plus the last records, dumped as JSON
save(m, t) ==
    [kind |-> "json",
     data |-> [summary |-> get_summary(m, t),
               records |-> [i \in 1..Len(last_records(m.records)) |->
                               dump_record(last_records(m.records)[i])]]]

\* the keys from_file reads with r[...]; duration_seconds and error are read
\* with r.get
RequiredKeys == {"file_path", "file_type", "file_size", "success"}
\* building one ProcessingRecord from a record object raises
record_raises(r) == ~(RequiredKeys \subseteq r.has)
\* the ProcessingRecord from_file builds at time t
load_record(r, t) ==
    [file_path |-> r.file_path, file_type |-> r.file_type, file_size |-> r.file_size,
     start_time |-> t - (IF "duration_seconds" \in r.has THEN r.duration_seconds ELSE 0),
     end_time |-> t, success |-> r.success,
     error |-> IF "error" \in r.has THEN r.error ELSE ""]

\* the records the loop of from_file appends before one raises
loadable(rs) ==
    Cardinality({i \in 1..Len(rs) : \A j \in 1..i : ~record_raises(rs[j])})

\* from_file at time t: a new collector; the counters are assigned, then
\* started_at, then the records one by one, and an exception ends the load
\* where it is, keeping what was assigned
from_file(file, t) ==
    IF file.kind # "json" THEN EmptyMetrics(t)
    ELSE LET data == file.data
             counted == [EmptyMetrics(t) EXCEPT
                            !.files_processed = data.summary.files_processed,
                            !.files_succeeded = data.summary.files_succeeded,
                            !.files_failed = data.summary.files_failed,
                            !.total_bytes_processed = data.summary.total_bytes_processed]
         IN IF ~is_isoformat(data.summary.started_at) THEN counted
            ELSE [counted EXCEPT
                    !.started_at = fromisoformat(data.summary.started_at),
                    !.records = [i \in 1..loadable(data.records) |->
                                    load_record(data.records[i], t)]]
\* "from_file was not called"
NoLoad == [EmptyMetrics(0) EXCEPT !.files_processed = -1]

SetMetricsInit ==
    /\ files_processed = 0
    /\ files_succeeded = 0
    /\ files_failed = 0
    /\ total_bytes_processed = 0
    /\ records = <<>>
    /\ current = NoRecord
    /\ started_at = 0

SetMetricsTo(m) ==
    /\ files_processed = m.files_processed
    /\ files_succeeded = m.files_succeeded
    /\ files_failed = m.files_failed
    /\ total_bytes_processed = m.total_bytes_processed
    /\ records = m.records
    /\ current = m.current
    /\ started_at = m.started_at

SetMetrics(m) ==
    /\ files_processed' = m.files_processed
    /\ files_succeeded' = m.files_succeeded
    /\ files_failed' = m.files_failed
    /\ total_bytes_processed' = m.total_bytes_processed
    /\ records' = m.records
    /\ current' = m.current
    /\ started_at' = m.started_at

\* --------------------------------------- the collector used on its own
\* a caller of start_processing, while the collector holds less than limit
\* records
StartProcessing(p, limit) ==
    /\ Len(records) < limit
    /\ SetMetrics(start_processing(Metrics, p, FileType(p), FileSize(p), now))
    /\ summary' = NoSummary
    /\ UNCHANGED <<fsVars, watchVars, procVars, histVars, extVars, loaded, debVars, wfVars>>

\* a caller of end_processing, with or without an open record
EndProcessing(success) ==
    /\ SetMetrics(end_processing(Metrics, success, IF success THEN "" ELSE "boom", now))
    /\ summary' = NoSummary
    /\ UNCHANGED <<fsVars, watchVars, procVars, histVars, extVars, loaded, debVars, wfVars>>

\* a caller of get_summary
GetSummary ==
    /\ summary' = get_summary(Metrics, now)
    /\ UNCHANGED <<fsVars, watchVars, procVars, metricVars, histVars, extVars, loaded,
                   debVars, wfVars>>

\* a caller of save
Save ==
    /\ metrics_file' = save(Metrics, now)
    /\ UNCHANGED <<exists, outputs, watchVars, procVars, metricVars, histVars, extVars,
                   notPipe>>

\* what can become of a written metrics file: it is cut short (no JSON any
\* more), or edited so that started_at is no date or that a record lacks
\* its success flag
Damaged(file) ==
    {Garbage, [file EXCEPT !.data.summary.started_at = Malformed]}
    \cup {[file EXCEPT !.data.records[i].has = @ \ {"success"}] :
             i \in {1, Len(file.data.records)} \ {0}}

Damage ==
    /\ metrics_file.kind = "json"
    /\ metrics_file' \in Damaged(metrics_file)
    /\ UNCHANGED <<exists, outputs, watchVars, procVars, metricVars, histVars, extVars,
                   notPipe>>

\* a caller of PipelineMetrics.from_file
Load ==
    /\ loaded' = from_file(metrics_file, now)
    /\ UNCHANGED <<fsVars, watchVars, procVars, metricVars, histVars, extVars, summary,
                   debVars, wfVars>>

\* ------------------------------------------------------------ the queue
\* asyncio.Queue: put_nowait appends, get takes the oldest item
QueuePut(q, p) == Append(q, p)

QueueGetNewest(q) == [item |-> q[Len(q)], rest |-> SubSeq(q, 1, Len(q) - 1)]

QueuePeek(q) == [item |-> Head(q), rest |-> q]

QueueGet(q) == [item |-> Head(q), rest |-> Tail(q)]

\* a finished process_file call, for the history: its path, the size stat
\* gave (or would have given), its result, and the place where it raised
Call(p, ok, raised) ==
    [file_path |-> p, file_size |-> FileSize(p), ok |-> ok, raised |-> raised]

\* a worker that ends after one file
LoopExits == "stopped"

\* the worker is back at `while not self._shutdown`
LoopTop == IF shutdown THEN "stopped" ELSE "idle"

\* ------------------------------------------------------------- file system
FsCreate(p) ==
    /\ p \notin exists
    /\ exists' = exists \cup {p}
    /\ UNCHANGED <<outputs, metrics_file, watchVars, procVars, metricVars, histVars>>
    /\ UNCHANGED <<extVars, notPipe>>

FsDelete(p) ==
    /\ p \in exists
    /\ exists' = exists \ {p}
    /\ UNCHANGED <<outputs, metrics_file, watchVars, procVars, metricVars, histVars>>
    /\ UNCHANGED <<extVars, notPipe>>

\* ------------------------------------------- the watcher, seen from here
\* _on_file_change: put_nowait on the unbounded queue
on_file_change(p) ==
    /\ queue' = QueuePut(queue, p)
    /\ enq_log' = Append(enq_log, p)

\* A debounce timer of p fires on the loop and finds the file: the callback
\* puts the job. Timers are scheduled once the watcher was started and a
\* scheduled one still fires after stop(); SpecWatcher has the timers.
WatcherDelivers(p) ==
    /\ main # "init"
    /\ p \in exists
    /\ Len(enq_log) < MaxJobs
    /\ on_file_change(p)
    /\ UNCHANGED <<watchVars, fsVars, concurrent_workers, main, shutdown, pc, cur,
                   metricVars, deq_log, returned>>
    /\ UNCHANGED <<extVars, notPipe>>

\* ---------------------------------------------------- PipelineProcessor
\* the orders in which the glob of process_existing can list the files
ScanOrders(S) ==
    {s \in [1..Cardinality(S) -> S] : \A i, j \in 1..Cardinality(S) : i # j => s[i] # s[j]}

\* data_dir.glob("**/*" + ext): the entries of the directory whose name
\* ends with ext, files and directories alike, in the order the glob lists
glob(entries, ext) ==
    ScanOrders({e \in entries : fnmatch(Chars(e), <<"*">> \o Chars(ext))})

\* `for ext in supported_extensions: files.extend(data_dir.glob(pattern))`
RECURSIVE extend_all(_, _)
extend_all(exts, entries) ==
    IF exts = <<>> THEN {<<>>}
    ELSE {found \o rest : found \in glob(entries, Head(exts)),
                          rest \in extend_all(Tail(exts), entries)}

\* f.is_file()
is_file(e) == e \in exists

\* FileWatcher.process_existing: the lists it can return; the data directory
\* is flat here, so the recursive and the plain pattern find the same
process_existing ==
    {SelectSeq(files, is_file) :
        files \in extend_all(supported_extensions, exists \cup Directories)}

\* a caller of FileWatcher.process_existing, which is public
ProcessExisting ==
    /\ existing' \in process_existing
    /\ UNCHANGED <<watching, leaked, supported_extensions>>
    /\ UNCHANGED <<fsVars, procVars, metricVars, histVars, extVars, notPipe>>

\* start(process_existing): create the workers, enqueue the scan, then watch.
\* The put on the unbounded queue never suspends, so start is one step.
Start(scan) ==
    /\ main = "init"
    /\ pc' = [w \in WorkerIds |-> IF w <= concurrent_workers THEN "idle" ELSE "none"]
    /\ IF scan
          THEN \E s \in process_existing :
                  /\ queue' = queue \o s
                  /\ enq_log' = enq_log \o s
          ELSE UNCHANGED <<queue, enq_log>>
    /\ watching' = TRUE
    /\ UNCHANGED <<leaked, supported_extensions, existing>>
    /\ main' = "running"
    /\ UNCHANGED <<fsVars, concurrent_workers, shutdown, cur, metricVars,
                   deq_log, returned>>
    /\ UNCHANGED <<extVars, notPipe>>

\* start() called on a processor that is already running, as run() does
\* after the start command of the CLI has called start(): N more worker
\* tasks are appended to _workers, the scan is enqueued again, and a new
\* FileWatcher replaces self.watcher, whose observer goes on running.
StartAgain ==
    /\ main = "running"
    /\ 2 * concurrent_workers <= MaxWorkers
    /\ \A w \in (concurrent_workers + 1)..(2 * concurrent_workers) : pc[w] = "none"
    /\ pc' = [w \in WorkerIds |->
                IF w \in (concurrent_workers + 1)..(2 * concurrent_workers)
                THEN "idle" ELSE pc[w]]
    /\ \E s \in process_existing :
          /\ queue' = queue \o s
          /\ enq_log' = enq_log \o s
    /\ leaked' = IF watching THEN leaked + 1 ELSE leaked
    /\ watching' = TRUE
    /\ UNCHANGED <<supported_extensions, existing>>
    /\ UNCHANGED <<fsVars, concurrent_workers, main, shutdown, cur, metricVars,
                   deq_log, returned>>
    /\ UNCHANGED <<extVars, notPipe>>

\* process_file from its call to its first suspension: stat, start_processing
\* and extract are synchronous; an exception runs the except branch at once
ProcessFileBegin(w, p, extract_ok) ==
    IF p \notin exists
    THEN \* file_path.stat() raises: no record was opened by this call
         /\ SetMetrics(end_processing(Metrics, FALSE, "stat", now))
         /\ returned' = Append(returned, Call(p, FALSE, "stat"))
         /\ pc' = [pc EXCEPT ![w] = LoopTop]
         /\ UNCHANGED cur
    ELSE IF ~extract_ok
    THEN \* extractor.extract raises after start_processing
         /\ SetMetrics(end_processing(start_processing(Metrics, p, FileType(p), FileSize(p), now),
                                      FALSE, "extract", now))
         /\ returned' = Append(returned, Call(p, FALSE, "extract"))
         /\ pc' = [pc EXCEPT ![w] = LoopTop]
         /\ UNCHANGED cur
    ELSE \* suspended in `await self.generator.generate(content)`
         /\ SetMetrics(start_processing(Metrics, p, FileType(p), FileSize(p), now))
         /\ pc' = [pc EXCEPT ![w] = "generate"]
         /\ cur' = [cur EXCEPT ![w] = p]
         /\ UNCHANGED returned

\* _worker: queue.get() hands over the oldest job and process_file starts
WorkerTake(w) ==
    /\ pc[w] = "idle"
    /\ queue # <<>>
    /\ queue' = QueueGet(queue).rest
    /\ deq_log' = Append(deq_log, QueueGet(queue).item)
    /\ \E extract_ok \in BOOLEAN : ProcessFileBegin(w, QueueGet(queue).item, extract_ok)
    /\ UNCHANGED <<fsVars, watchVars, concurrent_workers, main, shutdown, enq_log>>
    /\ UNCHANGED <<extVars, notPipe>>

\* _worker: wait_for times out, the loop condition sees _shutdown
WorkerTimeout(w) ==
    /\ pc[w] = "idle"
    /\ shutdown
    /\ pc' = [pc EXCEPT ![w] = "stopped"]
    /\ UNCHANGED <<fsVars, watchVars, concurrent_workers, main, queue, shutdown, cur,
                   metricVars, histVars>>
    /\ UNCHANGED <<extVars, notPipe>>

\* generate returned: _save_execution_output suspends in aiofiles
GenerateReturns(w) ==
    /\ pc[w] = "generate"
    /\ pc' = [pc EXCEPT ![w] = "write"]
    /\ UNCHANGED <<fsVars, watchVars, concurrent_workers, main, queue, shutdown, cur,
                   metricVars, histVars>>
    /\ UNCHANGED <<extVars, notPipe>>

\* the except branch of process_file, then back in the worker loop
ProcessFileFails(w, error) ==
    /\ SetMetrics(end_processing(Metrics, FALSE, error, now))
    /\ returned' = Append(returned, Call(cur[w], FALSE, error))
    /\ pc' = [pc EXCEPT ![w] = LoopTop]
    /\ cur' = [cur EXCEPT ![w] = NoPath]

\* generate raised
GenerateRaises(w) ==
    /\ pc[w] = "generate"
    /\ ProcessFileFails(w, "generate")
    /\ UNCHANGED <<fsVars, watchVars, concurrent_workers, main, queue, shutdown,
                   enq_log, deq_log>>
    /\ UNCHANGED <<extVars, notPipe>>

\* the write of the output raised; the file may or may not have been created
WriteRaises(w) ==
    /\ pc[w] = "write"
    /\ ProcessFileFails(w, "write")
    /\ \E created \in BOOLEAN :
          outputs' = IF created THEN outputs \cup {cur[w]} ELSE outputs
    /\ UNCHANGED <<exists, metrics_file, watchVars, concurrent_workers, main, queue,
                   shutdown, enq_log, deq_log>>
    /\ UNCHANGED <<extVars, notPipe>>

\* the states of the memory service: not enabled; storing; enabled with no
\* index; enabled with an index or an encoder that raises
MemoryModes == {"disabled", "healthy", "refusing", "raising"}

\* upsert with the exception of the index let through
upsert_uncaught(mode) ==
    CASE mode = "healthy" -> "true"
      [] mode = "raising" -> "raise"
      [] OTHER -> "false"

\* PineconeMemory.upsert: True when stored, False without an index, and
\* False as well when the encoder or the index raises
upsert(mode) ==
    CASE mode = "healthy" -> "true"
      [] OTHER -> "false"

\* _store_execution_memory: upsert is called when the service is enabled
store_execution_memory(p) ==
    IF memory_mode = "disabled" THEN upserts
    ELSE Append(upserts, [file_path |-> p, result |-> upsert(memory_mode)])

\* the output is written: _store_execution_memory, end_processing(success=
\* True), metrics.save, return True; when upsert or save raises the except
\* branch runs end_processing
WriteDone(w) ==
    /\ pc[w] = "write"
    /\ outputs' = outputs \cup {cur[w]}
    /\ upserts' = store_execution_memory(cur[w])
    /\ IF memory_mode # "disabled" /\ upsert(memory_mode) = "raise"
       THEN /\ SetMetrics(end_processing(Metrics, FALSE, "memory", now))
            /\ UNCHANGED metrics_file
            /\ returned' = Append(returned, Call(cur[w], FALSE, "memory"))
       ELSE \E save_ok \in BOOLEAN :
              LET closed == end_processing(Metrics, TRUE, "", now)
              IN  IF save_ok
                  THEN /\ SetMetrics(closed)
                       /\ metrics_file' = save(closed, now)
                       /\ returned' = Append(returned, Call(cur[w], TRUE, ""))
                  ELSE /\ SetMetrics(end_processing(closed, FALSE, "save", now))
                       /\ UNCHANGED metrics_file
                       /\ returned' = Append(returned, Call(cur[w], FALSE, "save"))
    /\ pc' = [pc EXCEPT ![w] = LoopTop]
    /\ cur' = [cur EXCEPT ![w] = NoPath]
    /\ UNCHANGED <<exists, watchVars, concurrent_workers, main, queue, shutdown,
                   enq_log, deq_log, memory_mode, cancel_sent, artifact, notPipe>>

\* `except Exception` with every exception caught, CancelledError too
CatchesEverything(exc) == TRUE

\* `except Exception` in process_file: CancelledError is no Exception
CaughtAtFileBoundary(exc) == exc # "CancelledError"

\* The owner of worker task w cancels it while it is suspended: in
\* wait_for(queue.get()), in generate or in the write of the output. The
\* CancelledError is raised at that await; `except asyncio.CancelledError:
\* raise` in _worker ends the task as cancelled.
CancelWorker(w) ==
    /\ pc[w] \in {"idle", "generate", "write"}
    /\ ~cancel_sent[w]
    /\ cancel_sent' = [cancel_sent EXCEPT ![w] = TRUE]
    /\ IF pc[w] # "idle" /\ CaughtAtFileBoundary("CancelledError")
       THEN ProcessFileFails(w, "cancelled")
       ELSE /\ pc' = [pc EXCEPT ![w] = "cancelled"]
            /\ cur' = [cur EXCEPT ![w] = NoPath]
            /\ UNCHANGED <<metricVars, returned>>
    /\ IF pc[w] = "write"
       THEN \E created \in BOOLEAN :
               outputs' = IF created THEN outputs \cup {cur[w]} ELSE outputs
       ELSE UNCHANGED outputs
    /\ UNCHANGED <<exists, metrics_file, watchVars, concurrent_workers, main, queue,
                   shutdown, enq_log, deq_log, memory_mode, upserts, artifact, notPipe>>

\* stop(), up to `await asyncio.gather(*self._workers)`
StopBegin ==
    /\ main = "running"
    /\ shutdown' = TRUE
    /\ watching' = FALSE
    /\ UNCHANGED <<leaked, supported_extensions, existing>>
    /\ main' = "stopping"
    /\ UNCHANGED <<fsVars, concurrent_workers, queue, pc, cur, metricVars,
                   histVars>>
    /\ UNCHANGED <<extVars, notPipe>>

\* stop(), once every worker task is done: clear the list, save the metrics
StopEnd ==
    /\ main = "stopping"
    /\ \A w \in WorkerIds : pc[w] \in {"none", "stopped", "cancelled"}
    /\ pc' = [w \in WorkerIds |-> "none"]
    /\ \E save_ok \in BOOLEAN :
          IF save_ok
          THEN metrics_file' = save(Metrics, now) /\ main' = "stopped"
          ELSE UNCHANGED metrics_file /\ main' = "stop_failed"
    /\ UNCHANGED <<exists, outputs, watchVars, concurrent_workers, queue, shutdown,
                   cur, metricVars, histVars>>
    /\ UNCHANGED <<extVars, notPipe>>

\* ------------------------------------------- DebouncedHandler on the loop
\* The watchdog thread calls on_created / on_modified; each posts
\* _schedule_callback to the loop with call_soon_threadsafe. The loop runs
\* its ready handles first in, first out; a TimerHandle joins them once its
\* time has come.
NoTime == -1
\* a TimerHandle the loop is done with (run, skipped or dropped)
DoneTimer(p) == [path |-> p, when |-> 0, cancelled |-> FALSE, state |-> "done"]

\* the event continues the burst of its path: it comes less than
\* debounce_seconds after the previous event of the path
ContinuesBurst(p) == last_event[p] # NoTime /\ now - last_event[p] < Debounce

\* on_created / on_modified (the two handlers have one body), for an event
\* that passed the filters: loop.call_soon_threadsafe(_schedule_callback)
on_created_or_modified(p) ==
    /\ nevents < MaxEvents
    /\ nevents' = nevents + 1
    /\ last_event' = [last_event EXCEPT ![p] = now]
    /\ bursts' = [bursts EXCEPT ![p] = IF ContinuesBurst(p) THEN @ ELSE @ + 1]
    /\ ready' = Append(ready, [kind |-> "schedule", path |-> p, id |-> 0,
                               in_burst |-> ContinuesBurst(p)])
    /\ UNCHANGED <<now, timers, pending, loop_error, callbacks, drops, pipeVars>>
    /\ UNCHANGED wfVars

\* _should_ignore: the name matches one of the ignore patterns
never_ignore(path) == FALSE

should_ignore(path) ==
    \E i \in 1..Len(ignore_patterns) : fnmatch(Chars(path), Chars(ignore_patterns[i]))

\* _is_supported: the lower-cased suffix is one of the supported extensions
is_supported(path) ==
    \E i \in 1..Len(supported_extensions) :
        lower(suffix(Chars(path))) = Chars(supported_extensions[i])

\* the kinds of event the observer dispatches to the handler
EventKinds == {"created", "modified", "deleted"}

\* the observer thread hands an event to the handler: on_created and
\* on_modified filter it and post _schedule_callback; the handler defines
\* nothing for the other kinds
dispatch(kind, path, is_directory) ==
    /\ nevents < MaxEvents
    /\ IF /\ kind \in {"created", "modified"}
          /\ ~is_directory
          /\ ~(should_ignore(path) \/ ~is_supported(path))
       THEN on_created_or_modified(path)
       ELSE /\ nevents' = nevents + 1
            /\ UNCHANGED <<now, ready, timers, pending, loop_error, last_event,
                           bursts, callbacks, drops, pipeVars>>
            /\ UNCHANGED wfVars

\* `if path in self.pending: self.pending[path].cancel()`
KeepPending(tm, id) == tm

CancelPending(tm, id) ==
    IF id = 0 THEN tm ELSE [tm EXCEPT ![id].cancelled = TRUE]

\* _schedule_callback(path), run by the loop: cancel, call_later, store
schedule_callback(p) ==
    /\ timers' = Append(CancelPending(timers, pending[p]),
                        [path |-> p, when |-> now + Debounce,
                         cancelled |-> FALSE, state |-> "scheduled"])
    /\ pending' = [pending EXCEPT ![p] = Len(timers) + 1]
    /\ UNCHANGED <<loop_error, callbacks, drops, exists, queue, enq_log>>

\* `if Path(path).exists()`
AssumeFileExists(p) == TRUE

FileStillExists(p) == p \in exists

\* run_callback of timer id: delete the entry, look for the file, call back
run_callback(id) ==
    LET p == timers[id].path IN
    /\ timers' = [timers EXCEPT ![id] = DoneTimer(p)]
    /\ IF pending[p] = 0
          THEN \* `del self.pending[path]` raises KeyError
               /\ loop_error' = TRUE
               /\ UNCHANGED <<pending, callbacks, drops, queue, enq_log>>
          ELSE /\ pending' = [pending EXCEPT ![p] = 0]
               /\ IF FileStillExists(p)
                     THEN /\ on_file_change(p)
                          /\ callbacks' = [callbacks EXCEPT ![p] = @ + 1]
                          /\ UNCHANGED drops
                     ELSE /\ drops' = [drops EXCEPT ![p] = @ + 1]
                          /\ UNCHANGED <<queue, enq_log, callbacks>>
               /\ UNCHANGED loop_error
    /\ UNCHANGED exists

\* the loop runs the oldest ready handle; a cancelled handle is skipped
RunReady ==
    /\ ready # <<>>
    /\ ready' = Tail(ready)
    /\ LET h == Head(ready) IN
       IF h.kind = "schedule" THEN schedule_callback(h.path)
       ELSE IF timers[h.id].cancelled
       THEN /\ timers' = [timers EXCEPT ![h.id] = DoneTimer(h.path)]
            /\ UNCHANGED <<pending, loop_error, callbacks, drops, exists, queue, enq_log>>
       ELSE run_callback(h.id)
    /\ UNCHANGED <<now, nevents, last_event, bursts, outputs, metrics_file, watchVars,
                   concurrent_workers, main, shutdown, pc, cur, metricVars, deq_log,
                   returned>>
    /\ UNCHANGED <<extVars, readerVars, wfVars>>

\* the loop moves a timer whose time has come to the ready handles, the
\* earliest first; a cancelled timer is dropped instead
TimerDue(id) ==
    /\ timers[id].state = "scheduled"
    /\ timers[id].when <= now
    /\ \A j \in 1..Len(timers) :
          timers[j].state = "scheduled" => timers[id].when <= timers[j].when

PromoteTimer(id) ==
    /\ id \in 1..Len(timers)
    /\ TimerDue(id)
    /\ IF timers[id].cancelled
          THEN /\ timers' = [timers EXCEPT ![id] = DoneTimer(timers[id].path)]
               /\ UNCHANGED ready
          ELSE /\ timers' = [timers EXCEPT ![id].state = "ready"]
               /\ ready' = Append(ready, [kind |-> "timer", path |-> timers[id].path,
                                          id |-> id, in_burst |-> FALSE])
    /\ UNCHANGED <<now, pending, loop_error, nevents, last_event, bursts, callbacks,
                   drops, pipeVars>>
    /\ UNCHANGED wfVars

\* time passes
Tick ==
    /\ now < MaxTime
    /\ now' = now + 1
    /\ UNCHANGED <<ready, timers, pending, loop_error, nevents, last_event, bursts,
                   callbacks, drops, pipeVars>>
    /\ UNCHANGED wfVars

\* ----------------------------------------------------- AgentOrchestrator
\* the workflow: three declared steps, s2 and s3 reading s1
StepNames == {"s1", "s2", "s3"}
steps == <<"s1", "s2", "s3">>
Role(s) == IF s = "s1" THEN "planner" ELSE "engineer"
Roles == {"planner", "engineer"}
\* input_from of each step: a chain s1 -> s2 -> s3
NoStep == "-"
InputFrom(s) == CASE s = "s2" -> "s1" [] s = "s3" -> "s2" [] OTHER -> NoStep
\* max_retries of each step, as the built-in workflows set it
max_retries(s) == IF s = "s2" THEN 2 ELSE 1
\* prompt_template of each step
Template(s) == <<"template of", s>>
\* context.original_content
OriginalContent == "original content"
NoPayload == [content |-> "-", step_prompt |-> <<>>, previous_output |-> <<>>]
\* the text the generator returns for a step
Text(s) == <<"text of", s>>
NoText == <<>>
NoResult == [success |-> FALSE, steps_completed |-> <<>>, final_output |-> NoText,
             agent_outputs |-> <<>>, errors |-> <<>>]
\* the values of workflow["parallel_steps"] taken as inputs; "zz" and "yy"
\* are names that no declared step has
ParallelChoices ==
    { <<>>,
      << <<"zz">>, <<"yy", "zz">> >>,
      << <<"s2", "s3">> >>,
      << <<"s1">>, <<"s2", "s3">> >>,
      << <<"s3", "s2">>, <<"s1">> >>,
      << <<"s1", "s2", "s3">> >>,
      << <<"zz">>, <<"s1", "zz">>, <<"s2", "s3">> >> }

\* the groups of the plan as given, then the steps they leave out
build_execution_plan_complete(ss, groups) ==
    IF groups # <<>>
    THEN groups \o [i \in 1..Len(ss) |-> <<ss[i]>>]
    ELSE [i \in 1..Len(ss) |-> <<ss[i]>>]

\* _build_execution_plan
build_execution_plan(ss, groups) ==
    IF groups # <<>> THEN groups ELSE [i \in 1..Len(ss) |-> <<ss[i]>>]

execution_plan == build_execution_plan(steps, parallel_steps)

\* `for name in group: if name in step_map: group_steps.append(...)`
InStepMap(name) == name \in StepNames
group_steps(g) == SelectSeq(execution_plan[g], InStepMap)

\* every group goes the way of a single step
never_parallel(g) == FALSE

\* `if len(group_steps) > 1` of _execute_step_group: execute_parallel_steps
\* takes the group; else the first step of the group is run on its own
is_parallel(g) == Len(group_steps(g)) > 1

Members(g) == {group_steps(g)[i] : i \in 1..Len(group_steps(g))}
Finished(s) == step_state[s] \in {"returned", "raised"}
Started(s) == step_state[s] \in {"running", "returned", "raised"}

\* a dict assignment d[k] = v: a new key goes last, an old one keeps its place
DictSet(d, k, v) ==
    IF \E i \in 1..Len(d) : d[i].name = k
    THEN [i \in 1..Len(d) |-> IF d[i].name = k THEN [name |-> k, text |-> v] ELSE d[i]]
    ELSE Append(d, [name |-> k, text |-> v])

\* add_result, agent_outputs[step_name] = result, steps_completed.append,
\* for the steps of seq in order
RECURSIVE Recorded(_, _)
Recorded(acc, seq) ==
    IF seq = <<>> THEN acc
    ELSE Recorded([ctx |-> [acc.ctx EXCEPT ![Head(seq)] = Text(Head(seq))],
                   outs |-> DictSet(acc.outs, Head(seq), Text(Head(seq))),
                   done |-> Append(acc.done, Head(seq))],
                  Tail(seq))

\* the same without add_result
RecordOutputsOnly(seq) ==
    LET r == Recorded([ctx |-> intermediate_results, outs |-> agent_outputs,
                       done |-> steps_completed], seq)
    IN  /\ intermediate_results' = intermediate_results
        /\ agent_outputs' = r.outs
        /\ steps_completed' = r.done

Record(seq) ==
    LET r == Recorded([ctx |-> intermediate_results, outs |-> agent_outputs,
                       done |-> steps_completed], seq)
    IN  /\ intermediate_results' = r.ctx
        /\ agent_outputs' = r.outs
        /\ steps_completed' = r.done

\* AgentContext.get_result: intermediate_results.get(step_name)
get_result(ctx, name) == ctx[name]

\* a wrong previous_output: the output recorded last, whatever input_from says
latest_output(s) ==
    IF agent_outputs = <<>> THEN NoText ELSE agent_outputs[Len(agent_outputs)].text

\* a wrong previous_output: the result of the step input_from names as soon
\* as its generator call has returned
result_once_returned(s) ==
    IF InputFrom(s) = NoStep THEN NoText
    ELSE IF step_state[InputFrom(s)] = "returned" THEN Text(InputFrom(s))
    ELSE get_result(intermediate_results, InputFrom(s))

\* previous_output: get_result(input_from) or "" when input_from is set
previous_output(s) ==
    IF InputFrom(s) = NoStep THEN NoText
    ELSE get_result(intermediate_results, InputFrom(s))

\* step_content: the original content, its metadata extended
step_content(s) ==
    [content |-> OriginalContent, step_prompt |-> Template(s),
     previous_output |-> previous_output(s)]

\* the ways the synchronous start of a step can go: the generator for the
\* role cannot be made; generate raises at once, returns at once, or suspends
StartOutcomes == {"raise_construct", "raise_call", "return", "suspend"}

\* `if role not in self._generators` (negated)
never_cached(role) == FALSE

cached(role) == role \in generators

\* _get_generator_for_role: the cache after the call and the generators
\* constructed; construct_ok tells whether get_generator returned
get_generator_for_role(role, construct_ok) ==
    /\ generators' = IF construct_ok THEN generators \cup {role} ELSE generators
    /\ constructions' = IF construct_ok /\ ~cached(role)
                           THEN [constructions EXCEPT ![role] = @ + 1]
                           ELSE constructions

\* _execute_step up to the first suspension of generator.generate
execute_step_begin(s, outcome) ==
    /\ outcome = "raise_construct" => ~cached(Role(s))
    /\ get_generator_for_role(Role(s), outcome # "raise_construct")
    /\ used' = IF outcome = "raise_construct" THEN used
               ELSE [used EXCEPT ![s] = constructions'[Role(s)]]
    /\ invoked' = IF outcome = "raise_construct" THEN invoked ELSE Append(invoked, s)
    /\ payloads' = IF outcome = "raise_construct" THEN payloads
                   ELSE [payloads EXCEPT ![s] = step_content(s)]
    /\ suspended' = IF outcome = "suspend" THEN suspended \cup {s} ELSE suspended
    /\ finish_order' = IF outcome = "suspend" THEN finish_order
                       ELSE Append(finish_order, s)
    /\ step_state' = [step_state EXCEPT ![s] =
                        CASE outcome = "suspend" -> "running"
                          [] outcome = "return" -> "returned"
                          [] OTHER -> "raised"]

\* a step that raised is attempted again while max_retries allows
retry_after_failure(g, s) ==
    IF Cardinality({i \in 1..Len(invoked) : invoked[i] = s}) <= max_retries(s)
    THEN g ELSE g + 1

\* the except branch of _execute_step_group appends the error and returns:
\* the loop of execute_workflow goes on with the next group
after_failure(g, s) == g + 1

\* execute_workflow, up to the loop over the plan
WfStart ==
    /\ wf_pc = "init"
    /\ wf_pc' = "loop"
    /\ UNCHANGED <<parallel_steps, other, generators, constructions, used, group_index, step_state,
                   intermediate_results, agent_outputs, steps_completed, errors, result,
                   invoked, payloads, suspended, finish_order, pipeVars, debVars>>

\* a group none of whose names is a declared step counted as an error
SkipGroupWithError ==
    /\ wf_pc = "loop"
    /\ group_index <= Len(execution_plan)
    /\ group_steps(group_index) = <<>>
    /\ group_index' = group_index + 1
    /\ errors' = Append(errors, [group |-> group_index, step |-> NoStep])
    /\ UNCHANGED <<parallel_steps, other, generators, constructions, used, wf_pc, step_state, intermediate_results,
                   agent_outputs, steps_completed, result, invoked, payloads, suspended,
                   finish_order, pipeVars, debVars>>

\* a group none of whose names is a declared step: `continue`
SkipGroup ==
    /\ wf_pc = "loop"
    /\ group_index <= Len(execution_plan)
    /\ group_steps(group_index) = <<>>
    /\ group_index' = group_index + 1
    /\ UNCHANGED <<parallel_steps, other, generators, constructions, used, wf_pc, step_state, intermediate_results,
                   agent_outputs, steps_completed, errors, result, invoked, payloads, suspended,
                   finish_order, pipeVars, debVars>>

\* _execute_step_group with one step, up to the suspension of the step or,
\* when it does not suspend, to the end of the group
SingleStart(outcome) ==
    /\ wf_pc = "loop"
    /\ group_index <= Len(execution_plan)
    /\ group_steps(group_index) # <<>>
    /\ ~is_parallel(group_index)
    /\ LET s == group_steps(group_index)[1] IN
       /\ execute_step_begin(s, outcome)
       /\ CASE outcome = "suspend" ->
                 /\ wf_pc' = "single"
                 /\ UNCHANGED <<group_index, intermediate_results, agent_outputs,
                                steps_completed, errors>>
            [] outcome = "return" ->
                 /\ Record(<<s>>)
                 /\ group_index' = group_index + 1
                 /\ UNCHANGED <<wf_pc, errors>>
            [] OTHER ->
                 /\ errors' = Append(errors, [group |-> group_index, step |-> s])
                 /\ group_index' = after_failure(group_index, s)
                 /\ UNCHANGED <<wf_pc, intermediate_results, agent_outputs,
                                steps_completed>>
    /\ UNCHANGED <<parallel_steps, other, result, pipeVars, debVars>>

\* the suspended generator call of a single step returns or raises
SingleFinish(ok) ==
    /\ wf_pc = "single"
    /\ LET s == group_steps(group_index)[1] IN
       /\ step_state' = [step_state EXCEPT ![s] = IF ok THEN "returned" ELSE "raised"]
       /\ IF ok
             THEN Record(<<s>>) /\ UNCHANGED errors
             ELSE /\ errors' = Append(errors, [group |-> group_index, step |-> s])
                  /\ UNCHANGED <<intermediate_results, agent_outputs, steps_completed>>
    /\ finish_order' = Append(finish_order, group_steps(group_index)[1])
    /\ wf_pc' = "loop"
    /\ group_index' = IF ok THEN group_index + 1
                      ELSE after_failure(group_index, group_steps(group_index)[1])
    /\ UNCHANGED <<parallel_steps, other, generators, constructions, used, result, invoked, payloads, suspended, pipeVars,
                   debVars>>

\* execute_parallel_steps: one task per step, then `await asyncio.gather`
GatherStart ==
    /\ wf_pc = "loop"
    /\ group_index <= Len(execution_plan)
    /\ is_parallel(group_index)
    /\ step_state' = [s \in StepNames |->
                        IF s \in Members(group_index) THEN "created" ELSE step_state[s]]
    /\ wf_pc' = "gather"
    /\ UNCHANGED <<parallel_steps, other, generators, constructions, used, group_index, intermediate_results,
                   agent_outputs, steps_completed, errors, result, invoked, payloads, suspended,
                   finish_order, pipeVars, debVars>>

\* the tasks of a gather are all scheduled when it is called, so the loop
\* starts each of them, in order, before it resumes any of them
StartsInTurn(g, i) ==
    \A j \in 1..(i - 1) : Started(group_steps(g)[j])

\* run_step of member i, up to the suspension of its generator call
ChildStart(i, outcome) ==
    /\ wf_pc = "gather"
    /\ i \in 1..Len(group_steps(group_index))
    /\ step_state[group_steps(group_index)[i]] = "created"
    /\ StartsInTurn(group_index, i)
    /\ execute_step_begin(group_steps(group_index)[i], outcome)
    /\ UNCHANGED <<parallel_steps, other, wf_pc, group_index, intermediate_results,
                   agent_outputs, steps_completed, errors, result, pipeVars, debVars>>

\* the group a step of a parallel group belongs to
GroupOf(s) ==
    CHOOSE g \in 1..Len(execution_plan) : s \in Members(g) /\ Len(group_steps(g)) > 1

\* the wake-up of a suspended member is queued behind the first steps of all
\* the tasks of its gather
MayResumeAtOnce(s) == TRUE

MayResume(s) == \A t \in Members(GroupOf(s)) : step_state[t] # "created"

\* the suspended generator call of a member returns or raises
ChildFinish(s, ok) ==
    /\ wf_pc = "gather"
    /\ s \in Members(group_index)
    /\ step_state[s] = "running"
    /\ \E g \in 1..Len(execution_plan) : s \in Members(g) /\ Len(group_steps(g)) > 1
    /\ MayResume(s)
    /\ finish_order' = Append(finish_order, s)
    /\ step_state' = [step_state EXCEPT ![s] = IF ok THEN "returned" ELSE "raised"]
    /\ UNCHANGED <<parallel_steps, other, generators, constructions, used, wf_pc, group_index, intermediate_results,
                   agent_outputs, steps_completed, errors, result, invoked, payloads, suspended,
                   pipeVars, debVars>>

\* `await asyncio.gather(*tasks, return_exceptions=True)` is over
GatherAny(g) == \E s \in Members(g) : Finished(s)

GatherAll(g) == \A s \in Members(g) : Finished(s)

\* outputs: the (name, result) tuples among the results, in task order; an
\* exception among them is logged and left out
IsReturned(s) == step_state[s] = "returned"
OutputsUnlessRaised(g) ==
    IF \A s \in Members(g) : IsReturned(s) THEN group_steps(g) ELSE <<>>

Outputs(g) == SelectSeq(group_steps(g), IsReturned)

\* gather is over: the outputs are recorded; the group reports no error
GatherDone ==
    /\ wf_pc = "gather"
    /\ GatherAll(group_index)
    /\ Record(Outputs(group_index))
    /\ wf_pc' = "loop"
    /\ group_index' = group_index + 1
    /\ UNCHANGED <<parallel_steps, other, generators, constructions, used, step_state, errors, result, invoked, payloads,
                   suspended, finish_order, pipeVars, debVars>>

\* final_output: the last value of agent_outputs, or ""
FinalOutput(outs) == IF outs = <<>> THEN NoText ELSE outs[Len(outs)].text

\* the plan is through: the WorkflowResult
WfReturn ==
    /\ wf_pc = "loop"
    /\ group_index > Len(execution_plan)
    /\ result' = [success |-> Len(errors) = 0,
                  steps_completed |-> steps_completed,
                  final_output |-> FinalOutput(agent_outputs),
                  agent_outputs |-> agent_outputs,
                  errors |-> errors]
    /\ wf_pc' = "done"
    /\ UNCHANGED <<parallel_steps, other, generators, constructions, used, group_index, step_state,
                   intermediate_results, agent_outputs, steps_completed, errors,
                   invoked, payloads, suspended, finish_order, pipeVars, debVars>>

\* ------------------------------- a second call on the same orchestrator
\* execute_workflow called once more while the first call runs, on a
\* workflow with the same steps and no parallel_steps: its locals (context,
\* agent_outputs, steps_completed, errors) and its place in the loop
OtherText(s) == <<"other text of", s>>
OtherOff ==
    [pc |-> "off", index |-> 1,
     state |-> [s \in StepNames |-> "idle"],
     context |-> [s \in StepNames |-> NoText],
     agent_outputs |-> <<>>, steps_completed |-> <<>>, errors |-> <<>>,
     result |-> NoResult,
     payloads |-> [s \in StepNames |-> NoPayload],
     used |-> [s \in StepNames |-> 0]]

\* `context = AgentContext(original_content=content)`: the context of the
\* second call
context_of_first == intermediate_results

context_of_other == other.context

\* execute_workflow, up to the loop over the plan
OtherStart ==
    /\ other.pc = "init"
    /\ other' = [other EXCEPT !.pc = "loop"]
    /\ UNCHANGED <<parallel_steps, generators, constructions, used, wf_pc, group_index,
                   step_state, intermediate_results, agent_outputs, steps_completed,
                   errors, result, invoked, payloads, suspended, finish_order, pipeVars,
                   debVars>>

\* what a step of the second call records when its call returned
OtherRecord(o, s) ==
    [o EXCEPT !.context[s] = OtherText(s),
              !.agent_outputs = DictSet(@, s, OtherText(s)),
              !.steps_completed = Append(@, s)]

\* _execute_step_group with one step, up to the suspension of the step or,
\* when it does not suspend, to the end of the group
OtherStepBegin(outcome) ==
    /\ other.pc = "loop"
    /\ other.index <= Len(steps)
    /\ LET s == steps[other.index]
           content == [content |-> OriginalContent, step_prompt |-> Template(s),
                       previous_output |->
                           IF InputFrom(s) = NoStep THEN NoText
                           ELSE get_result(context_of_other, InputFrom(s))]
           began == [other EXCEPT
                       !.payloads[s] = IF outcome = "raise_construct" THEN @ ELSE content,
                       !.used[s] = IF outcome = "raise_construct" THEN @
                                   ELSE constructions'[Role(s)],
                       !.state[s] = CASE outcome = "suspend" -> "running"
                                      [] outcome = "return" -> "returned"
                                      [] OTHER -> "raised"]
       IN /\ outcome = "raise_construct" => ~cached(Role(s))
          /\ get_generator_for_role(Role(s), outcome # "raise_construct")
          /\ other' =
                CASE outcome = "suspend" -> [began EXCEPT !.pc = "single"]
                  [] outcome = "return" ->
                        [OtherRecord(began, s) EXCEPT !.index = @ + 1]
                  [] OTHER ->
                        [began EXCEPT !.index = @ + 1,
                                      !.errors = Append(@, [group |-> other.index,
                                                            step |-> s])]
    /\ UNCHANGED <<parallel_steps, used, wf_pc, group_index, step_state,
                   intermediate_results, agent_outputs, steps_completed, errors, result,
                   invoked, payloads, suspended, finish_order, pipeVars, debVars>>

\* the suspended generator call of the step returns or raises
OtherStepFinish(ok) ==
    /\ other.pc = "single"
    /\ LET s == steps[other.index]
           finished == [other EXCEPT !.pc = "loop", !.index = @ + 1,
                                     !.state[s] = IF ok THEN "returned" ELSE "raised"]
       IN other' = IF ok THEN OtherRecord(finished, s)
                   ELSE [finished EXCEPT
                           !.errors = Append(@, [group |-> other.index, step |-> s])]
    /\ UNCHANGED <<parallel_steps, generators, constructions, used, wf_pc, group_index,
                   step_state, intermediate_results, agent_outputs, steps_completed,
                   errors, result, invoked, payloads, suspended, finish_order, pipeVars,
                   debVars>>

\* the plan is through: the WorkflowResult of the second call
OtherReturn ==
    /\ other.pc = "loop"
    /\ other.index > Len(steps)
    /\ other' = [other EXCEPT
                   !.pc = "done",
                   !.result = [success |-> Len(other.errors) = 0,
                               steps_completed |-> other.steps_completed,
                               final_output |-> FinalOutput(other.agent_outputs),
                               agent_outputs |-> other.agent_outputs,
                               errors |-> other.errors]]
    /\ UNCHANGED <<parallel_steps, generators, constructions, used, wf_pc, group_index,
                   step_state, intermediate_results, agent_outputs, steps_completed,
                   errors, result, invoked, payloads, suspended, finish_order, pipeVars,
                   debVars>>

\* no execute_workflow call
WfIdle ==
    /\ parallel_steps = <<>>
    /\ generators = {}
    /\ constructions = [r \in Roles |-> 0]
    /\ used = [s \in StepNames |-> 0]
    /\ other = OtherOff
    /\ wf_pc = "off"
    /\ group_index = 1
    /\ step_state = [s \in StepNames |-> "idle"]
    /\ intermediate_results = [s \in StepNames |-> NoText]
    /\ agent_outputs = <<>>
    /\ steps_completed = <<>>
    /\ errors = <<>>
    /\ result = NoResult
    /\ invoked = <<>>
    /\ payloads = [s \in StepNames |-> NoPayload]
    /\ suspended = {}
    /\ finish_order = <<>>

\* ------------------------------------- process_file with a workflow name
\* _run_workflow raising for a result that reports a failure
run_workflow_checked(res) == [raised |-> ~res.success, output |-> res.final_output]

\* _run_workflow once execute_workflow has returned:
\* `return result.final_output, "multi-agent-workflow"`
run_workflow(res) == [raised |-> FALSE, output |-> res.final_output]

\* the process command calls process_file(p, workflow_name): stat,
\* start_processing and extract, then _run_workflow awaits execute_workflow
ProcessCommand(p, extract_ok) ==
    /\ main = "init"
    /\ pc[1] = "none"
    /\ wf_pc = "off"
    /\ returned = <<>>
    /\ p \in exists
    /\ IF extract_ok
       THEN /\ SetMetrics(start_processing(Metrics, p, FileType(p), FileSize(p), now))
            /\ pc' = [pc EXCEPT ![1] = "workflow"]
            /\ cur' = [cur EXCEPT ![1] = p]
            /\ wf_pc' = "init"
            /\ UNCHANGED returned
       ELSE /\ SetMetrics(end_processing(start_processing(Metrics, p, FileType(p),
                                                          FileSize(p), now),
                                         FALSE, "extract", now))
            /\ returned' = Append(returned, Call(p, FALSE, "extract"))
            /\ UNCHANGED <<pc, cur, wf_pc>>
    /\ UNCHANGED <<fsVars, watchVars, concurrent_workers, main, queue, shutdown,
                   enq_log, deq_log, extVars, readerVars, debVars>>
    /\ UNCHANGED <<parallel_steps, other, generators, constructions, used, group_index,
                   step_state, intermediate_results, agent_outputs, steps_completed,
                   errors, result, invoked, payloads, suspended, finish_order>>

\* execute_workflow has returned: _run_workflow hands on final_output,
\* _save_execution_output writes it, then _store_execution_memory,
\* end_processing(success=True), metrics.save and `return True`; an
\* exception on the way runs the except branch
ProcessCommandDone(write_ok, save_ok) ==
    /\ pc[1] = "workflow"
    /\ wf_pc = "done"
    /\ LET p == cur[1]
           out == run_workflow(result)
           closed == end_processing(Metrics, TRUE, "", now)
           raised == CASE out.raised -> "workflow"
                       [] ~out.raised /\ ~write_ok -> "write"
                       [] ~out.raised /\ write_ok /\ ~save_ok -> "save"
                       [] OTHER -> ""
       IN /\ returned' = Append(returned, Call(p, raised = "", raised))
          /\ outputs' = IF raised \in {"", "save"} THEN outputs \cup {p} ELSE outputs
          /\ artifact' = IF raised \in {"", "save"} THEN out.output ELSE artifact
          /\ upserts' = IF raised \in {"", "save"} THEN store_execution_memory(p)
                        ELSE upserts
          /\ metrics_file' = IF raised = "" THEN save(closed, now) ELSE metrics_file
          /\ SetMetrics(CASE raised = "" -> closed
                          [] raised = "save" -> end_processing(closed, FALSE, "save", now)
                          [] OTHER -> end_processing(Metrics, FALSE, raised, now))
    /\ pc' = [pc EXCEPT ![1] = "none"]
    /\ cur' = [cur EXCEPT ![1] = NoPath]
    /\ UNCHANGED <<exists, watchVars, concurrent_workers, main, queue, shutdown,
                   enq_log, deq_log, memory_mode, cancel_sent, readerVars, debVars, wfVars>>

\* ------------------------------------------------------ the pipeline spec
PipeInit ==
    /\ exists \in SUBSET Paths
    /\ outputs = {}
    /\ metrics_file = NoFile
    /\ watching = FALSE
    /\ concurrent_workers \in 1..MaxWorkers
    /\ main = "init"
    /\ queue = <<>>
    /\ shutdown = FALSE
    /\ pc = [w \in WorkerIds |-> "none"]
    /\ cur = [w \in WorkerIds |-> NoPath]
    /\ SetMetricsInit
    /\ leaked = 0
    /\ existing = <<>>
    /\ loaded = NoLoad
    /\ summary = NoSummary
    /\ upserts = <<>>
    /\ cancel_sent = [w \in WorkerIds |-> FALSE]
    /\ artifact = <<>>
    /\ enq_log = <<>>
    /\ deq_log = <<>>
    /\ returned = <<>>

DebInit ==
    /\ now = 0
    /\ ready = <<>>
    /\ timers = <<>>
    /\ pending = [p \in AllPaths |-> 0]
    /\ loop_error = FALSE
    /\ nevents = 0
    /\ last_event = [p \in AllPaths |-> NoTime]
    /\ bursts = [p \in AllPaths |-> 0]
    /\ callbacks = [p \in AllPaths |-> 0]
    /\ drops = [p \in AllPaths |-> 0]

\* the memory service is not enabled
MemoryOff == memory_mode = "disabled"
\* the configuration is the default one
DefaultConfig == supported_extensions = DefaultExtensions

Init == PipeInit /\ MemoryOff /\ DefaultConfig /\ DebInit /\ WfIdle

Next ==
    \/ \E p \in Paths : FsCreate(p)
    \/ \E p \in Paths : FsDelete(p)
    \/ \E p \in Paths : WatcherDelivers(p)
    \/ \E b \in BOOLEAN : Start(b)
    \/ \E w \in WorkerIds : WorkerTake(w)
    \/ \E w \in WorkerIds : WorkerTimeout(w)
    \/ \E w \in WorkerIds : GenerateReturns(w)
    \/ \E w \in WorkerIds : GenerateRaises(w)
    \/ \E w \in WorkerIds : WriteRaises(w)
    \/ \E w \in WorkerIds : WriteDone(w)
    \/ StopBegin
    \/ StopEnd

vars == <<pipeVars, debVars, wfVars>>

Spec == Init /\ [][Next]_vars

\* --------------------------------------------------------- the CLI spec
\* the start command: start(), then run(), which calls start() again; the
\* data directory holds at most one file and does not change
InitCli ==
    /\ PipeInit
    /\ Cardinality(exists) <= 1
    /\ 2 * concurrent_workers <= MaxWorkers
    /\ MemoryOff
    /\ DefaultConfig
    /\ DebInit
    /\ WfIdle

NextCli ==
    \/ \E p \in Paths : WatcherDelivers(p)
    \/ \E b \in BOOLEAN : Start(b)
    \/ StartAgain
    \/ \E w \in WorkerIds : WorkerTake(w)
    \/ \E w \in WorkerIds : WorkerTimeout(w)
    \/ \E w \in WorkerIds : GenerateReturns(w)
    \/ \E w \in WorkerIds : GenerateRaises(w)
    \/ \E w \in WorkerIds : WriteRaises(w)
    \/ \E w \in WorkerIds : WriteDone(w)
    \/ StopBegin
    \/ StopEnd

SpecCli == InitCli /\ [][NextCli]_vars

\* ------------------------------------------------- the single-worker spec
\* one worker, the memory service in any of its states, and an owner that
\* may cancel the worker task
InitFile ==
    /\ PipeInit
    /\ concurrent_workers = 1
    /\ memory_mode \in MemoryModes
    /\ DefaultConfig
    /\ DebInit
    /\ WfIdle

NextFile ==
    \/ Next
    \/ \E w \in WorkerIds : CancelWorker(w)

SpecFile == InitFile /\ [][NextFile]_vars

\* -------------------------------------------------------- the watcher spec
\* a DebouncedHandler on a running loop, its callback bound to
\* _on_file_change, with the files coming and going under it
InitWatcher ==
    /\ PipeInit
    /\ MemoryOff
    /\ DefaultConfig
    /\ concurrent_workers = 1
    /\ DebInit
    /\ WfIdle

NextWatcher ==
    \/ \E p \in Paths : FsCreate(p)
    \/ \E p \in Paths : FsDelete(p)
    \/ \E p \in Paths : on_created_or_modified(p)
    \/ RunReady
    \/ \E id \in 1..MaxEvents : PromoteTimer(id)
    \/ Tick

SpecWatcher == InitWatcher /\ [][NextWatcher]_vars

\* ------------------------------------------------------- the running spec
\* a started pipeline that is neither stopped nor cancelled: the loop runs
\* every worker task that can go on, and every generator call and every
\* write of an output comes to an end; the data directory holds every file
\* and does not change
InitLive == Init /\ exists = Paths

NextLive ==
    \/ \E p \in Paths : WatcherDelivers(p)
    \/ \E b \in BOOLEAN : Start(b)
    \/ \E w \in WorkerIds : WorkerTake(w)
    \/ \E w \in WorkerIds : GenerateReturns(w)
    \/ \E w \in WorkerIds : GenerateRaises(w)
    \/ \E w \in WorkerIds : WriteRaises(w)
    \/ \E w \in WorkerIds : WriteDone(w)

SpecLive ==
    /\ InitLive
    /\ [][NextLive]_vars
    /\ WF_vars(\E w \in WorkerIds : WorkerTake(w))
    /\ \A w \in WorkerIds : WF_vars(GenerateReturns(w) \/ GenerateRaises(w))
    /\ \A w \in WorkerIds : WF_vars(WriteDone(w) \/ WriteRaises(w))

\* ------------------------------------------------------- the stopping spec
\* the observer thread of a started FileWatcher reports an event; stop()
\* joins the thread, so a stopped watcher reports nothing
ObserverDelivers(p) ==
    /\ watching
    /\ on_created_or_modified(p)

\* a pipeline of one worker with its debouncer on the loop, started
\* without a scan and stopped by its owner while the loop goes on running;
\* the data directory holds one file, which is modified
InitStop == InitWatcher /\ exists = {"a.txt"}

NextStop ==
    \/ Start(FALSE)
    \/ ObserverDelivers("a.txt")
    \/ RunReady
    \/ \E id \in 1..MaxEvents : PromoteTimer(id)
    \/ Tick
    \/ \E w \in WorkerIds : WorkerTake(w)
    \/ \E w \in WorkerIds : WorkerTimeout(w)
    \/ \E w \in WorkerIds : GenerateReturns(w)
    \/ \E w \in WorkerIds : GenerateRaises(w)
    \/ \E w \in WorkerIds : WriteRaises(w)
    \/ \E w \in WorkerIds : WriteDone(w)
    \/ StopBegin
    \/ StopEnd

SpecStop == InitStop /\ [][NextStop]_vars

\* ----------------------------------------------------------- the scan spec
\* a pipeline of one worker started once, under each configured list of
\* extensions; the data directory does not change
Extensions == {".txt", ".md", "txt"}
ExtensionLists == UNION {[1..n -> Extensions] : n \in 1..MaxExts}

InitScan ==
    /\ PipeInit
    /\ MemoryOff
    /\ supported_extensions \in ExtensionLists
    /\ concurrent_workers = 1
    /\ DebInit
    /\ WfIdle

NextScan ==
    \/ ProcessExisting
    \/ \E b \in BOOLEAN : Start(b)
    \/ \E p \in Paths : WatcherDelivers(p)
    \/ \E w \in WorkerIds : WorkerTake(w)
    \/ \E w \in WorkerIds : GenerateReturns(w)
    \/ \E w \in WorkerIds : GenerateRaises(w)
    \/ \E w \in WorkerIds : WriteRaises(w)
    \/ \E w \in WorkerIds : WriteDone(w)

SpecScan == InitScan /\ [][NextScan]_vars

\* ---------------------------------------------------------- the event spec
\* the handler under every event the observer can dispatch, on a data
\* directory that does not change
EventPaths == {"a.txt"} \cup OtherPaths

InitEvents == InitWatcher /\ exists \subseteq EventPaths

NextEvents ==
    \/ \E kind \in EventKinds, path \in EventPaths, is_directory \in BOOLEAN :
          dispatch(kind, path, is_directory)
    \/ RunReady
    \/ \E id \in 1..MaxEvents : PromoteTimer(id)
    \/ Tick

SpecEvents == InitEvents /\ [][NextEvents]_vars

\* ------------------------------------------------------ the metrics specs
\* a collector on its own while time passes
InitMetrics == Init /\ exists = {} /\ concurrent_workers = 1

NextMetrics ==
    \/ \E p \in Paths : StartProcessing(p, MaxRecords)
    \/ \E success \in BOOLEAN : EndProcessing(success)
    \/ GetSummary
    \/ Tick

SpecMetrics == InitMetrics /\ [][NextMetrics]_vars

\* the collector after n files were processed at time 0, a.txt and b.txt in
\* turn, every third of them failing
ProcessedRecord(i) ==
    LET p == IF i % 2 = 1 THEN "a.txt" ELSE "b.txt" IN
    [file_path |-> p, file_type |-> FileType(p), file_size |-> FileSize(p),
     start_time |-> 0, end_time |-> 0,
     success |-> (i % 3 # 0), error |-> IF i % 3 # 0 THEN "" ELSE "boom"]

Processed(n) ==
    [files_processed |-> n,
     files_succeeded |-> n - (n \div 3),
     files_failed |-> n \div 3,
     total_bytes_processed |-> (n - (n \div 2)) * FileSize("a.txt")
                               + (n \div 2) * FileSize("b.txt"),
     records |-> [i \in 1..n |-> ProcessedRecord(i)],
     current |-> NoRecord,
     started_at |-> 0]

\* a collector that holds one record less than a file keeps, its file and
\* a reader of the file
InitRoundTrip ==
    /\ exists = {}
    /\ outputs = {}
    /\ metrics_file = NoFile
    /\ watching = FALSE
    /\ concurrent_workers = 1
    /\ main = "init"
    /\ queue = <<>>
    /\ shutdown = FALSE
    /\ pc = [w \in WorkerIds |-> "none"]
    /\ cur = [w \in WorkerIds |-> NoPath]
    /\ SetMetricsTo(Processed(KeepLast - 1))
    /\ leaked = 0
    /\ existing = <<>>
    /\ loaded = NoLoad
    /\ summary = NoSummary
    /\ upserts = <<>>
    /\ cancel_sent = [w \in WorkerIds |-> FALSE]
    /\ artifact = <<>>
    /\ enq_log = <<>>
    /\ deq_log = <<>>
    /\ returned = <<>>
    /\ MemoryOff
    /\ DefaultConfig
    /\ DebInit
    /\ WfIdle

NextRoundTrip ==
    \/ \E p \in Paths : StartProcessing(p, KeepLast + MaxRecords - 1)
    \/ \E success \in BOOLEAN : EndProcessing(success)
    \/ Save
    \/ Damage
    \/ Load

SpecRoundTrip == InitRoundTrip /\ [][NextRoundTrip]_vars

\* ------------------------------------------------------ the workflow spec
\* a fresh orchestrator and one execute_workflow call on a workflow
InitWF ==
    /\ PipeInit
    /\ MemoryOff
    /\ DefaultConfig
    /\ exists = {}
    /\ concurrent_workers = 1
    /\ DebInit
    /\ parallel_steps \in ParallelChoices
    /\ generators = {}
    /\ constructions = [r \in Roles |-> 0]
    /\ used = [s \in StepNames |-> 0]
    /\ other = OtherOff
    /\ wf_pc = "init"
    /\ group_index = 1
    /\ step_state = [s \in StepNames |-> "idle"]
    /\ intermediate_results = [s \in StepNames |-> NoText]
    /\ agent_outputs = <<>>
    /\ steps_completed = <<>>
    /\ errors = <<>>
    /\ result = NoResult
    /\ invoked = <<>>
    /\ payloads = [s \in StepNames |-> NoPayload]
    /\ suspended = {}
    /\ finish_order = <<>>

NextWF ==
    \/ WfStart
    \/ SkipGroup
    \/ \E outcome \in StartOutcomes : SingleStart(outcome)
    \/ \E ok \in BOOLEAN : SingleFinish(ok)
    \/ GatherStart
    \/ \E i \in 1..Len(steps), outcome \in StartOutcomes : ChildStart(i, outcome)
    \/ \E s \in StepNames, ok \in BOOLEAN : ChildFinish(s, ok)
    \/ GatherDone
    \/ WfReturn

SpecWF == InitWF /\ [][NextWF]_vars

\* ------------------------------------------------ the process command spec
\* one process_file call with a workflow name on a file that exists, the
\* workflow with each of the parallel_steps taken as inputs
InitProcess ==
    /\ PipeInit
    /\ MemoryOff
    /\ DefaultConfig
    /\ exists = {"a.txt"}
    /\ concurrent_workers = 1
    /\ DebInit
    /\ parallel_steps \in ParallelChoices
    /\ generators = {}
    /\ constructions = [r \in Roles |-> 0]
    /\ used = [s \in StepNames |-> 0]
    /\ other = OtherOff
    /\ wf_pc = "off"
    /\ group_index = 1
    /\ step_state = [s \in StepNames |-> "idle"]
    /\ intermediate_results = [s \in StepNames |-> NoText]
    /\ agent_outputs = <<>>
    /\ steps_completed = <<>>
    /\ errors = <<>>
    /\ result = NoResult
    /\ invoked = <<>>
    /\ payloads = [s \in StepNames |-> NoPayload]
    /\ suspended = {}
    /\ finish_order = <<>>

NextProcess ==
    \/ \E extract_ok \in BOOLEAN : ProcessCommand("a.txt", extract_ok)
    \/ NextWF
    \/ \E write_ok, save_ok \in BOOLEAN : ProcessCommandDone(write_ok, save_ok)

SpecProcess == InitProcess /\ [][NextProcess]_vars

\* ---------------------------------------------------- the siblings spec
\* one execute_workflow call on a workflow whose parallel group holds a step
\* and the step its input_from names, with or without an earlier group that
\* ran the named step
SiblingPlans ==
    { << <<"s2", "s3">> >>,
      << <<"s3", "s2">> >>,
      << <<"s2">>, <<"s2", "s3">> >>,
      << <<"s1", "s2", "s3">> >> }

InitSiblings ==
    /\ PipeInit
    /\ MemoryOff
    /\ DefaultConfig
    /\ exists = {}
    /\ concurrent_workers = 1
    /\ DebInit
    /\ parallel_steps \in SiblingPlans
    /\ generators = {}
    /\ constructions = [r \in Roles |-> 0]
    /\ used = [s \in StepNames |-> 0]
    /\ other = OtherOff
    /\ wf_pc = "init"
    /\ group_index = 1
    /\ step_state = [s \in StepNames |-> "idle"]
    /\ intermediate_results = [s \in StepNames |-> NoText]
    /\ agent_outputs = <<>>
    /\ steps_completed = <<>>
    /\ errors = <<>>
    /\ result = NoResult
    /\ invoked = <<>>
    /\ payloads = [s \in StepNames |-> NoPayload]
    /\ suspended = {}
    /\ finish_order = <<>>

NextSiblings ==
    \/ WfStart
    \/ \E outcome \in StartOutcomes : SingleStart(outcome)
    \/ \E ok \in BOOLEAN : SingleFinish(ok)
    \/ GatherStart
    \/ \E i \in 1..Len(steps), outcome \in StartOutcomes : ChildStart(i, outcome)
    \/ \E s \in StepNames, ok \in BOOLEAN : ChildFinish(s, ok)
    \/ GatherDone
    \/ WfReturn

SpecSiblings == InitSiblings /\ [][NextSiblings]_vars

\* --------------------------------------------------- the two-calls spec
\* two execute_workflow calls in flight on one orchestrator, as two workers
\* of the pipeline make them; the first on a workflow with or without a
\* parallel group
InitTwoCalls ==
    /\ PipeInit
    /\ MemoryOff
    /\ DefaultConfig
    /\ exists = {}
    /\ concurrent_workers = 1
    /\ DebInit
    /\ parallel_steps \in {<<>>, << <<"s1">>, <<"s2", "s3">> >>}
    /\ generators = {}
    /\ constructions = [r \in Roles |-> 0]
    /\ used = [s \in StepNames |-> 0]
    /\ other = [OtherOff EXCEPT !.pc = "init"]
    /\ wf_pc = "init"
    /\ group_index = 1
    /\ step_state = [s \in StepNames |-> "idle"]
    /\ intermediate_results = [s \in StepNames |-> NoText]
    /\ agent_outputs = <<>>
    /\ steps_completed = <<>>
    /\ errors = <<>>
    /\ result = NoResult
    /\ invoked = <<>>
    /\ payloads = [s \in StepNames |-> NoPayload]
    /\ suspended = {}
    /\ finish_order = <<>>

NextTwoCalls ==
    \/ WfStart
    \/ \E outcome \in StartOutcomes : SingleStart(outcome)
    \/ \E ok \in BOOLEAN : SingleFinish(ok)
    \/ GatherStart
    \/ \E i \in 1..Len(steps), outcome \in StartOutcomes : ChildStart(i, outcome)
    \/ \E s \in StepNames, ok \in BOOLEAN : ChildFinish(s, ok)
    \/ GatherDone
    \/ WfReturn
    \/ OtherStart
    \/ \E outcome \in StartOutcomes : OtherStepBegin(outcome)
    \/ \E ok \in BOOLEAN : OtherStepFinish(ok)
    \/ OtherReturn

SpecTwoCalls == InitTwoCalls /\ [][NextTwoCalls]_vars

\* =================================================== claims on the pipeline
IsPrefix(s, t) == Len(s) <= Len(t) /\ \A i \in 1..Len(s) : s[i] = t[i]

\* record i of the history is the record of the finished call c
RecordOf(r, c) ==
    /\ r.file_path = c.file_path
    /\ r.file_size = c.file_size
    /\ r.success = c.ok

\* every finished call opened its record and its metrics.save went through
NoFailureOutsideRecord ==
    \A i \in 1..Len(returned) : returned[i].raised \notin {"stat", "save"}

\* C1: with workers sharing one collector, after k process_file calls have
\* returned files_processed = k and the history holds one record per call,
\* with that call's own path, size and outcome. (Stated for the runs in which
\* every call opened its record, so that only the sharing of the collector
\* is at stake.)
C1_OneRecordPerCall ==
    NoFailureOutsideRecord =>
        /\ files_processed = Len(returned)
        /\ Len(records) = Len(returned)
        /\ \A i \in 1..Len(returned) : RecordOf(records[i], returned[i])

\* C4: a file A whose processing raised leaves the worker loop running (a
\* worker stops only on the shutdown flag), and once a file B processed
\* after it has succeeded the metrics show A failed and B succeeded.
\* (Stated for one worker.)
C4_WorkerIsolation ==
    /\ \A w \in WorkerIds : pc[w] = "stopped" => shutdown
    /\ concurrent_workers = 1 =>
         \A i, j \in 1..Len(returned) :
            (i < j /\ ~returned[i].ok /\ returned[j].ok) =>
                /\ \E k \in 1..Len(records) :
                      records[k].file_path = returned[i].file_path /\ ~records[k].success
                /\ \E k \in 1..Len(records) :
                      records[k].file_path = returned[j].file_path /\ records[k].success
                /\ files_failed >= 1
                /\ files_succeeded >= 1

\* C5: every process_file call that returns False has added exactly one
\* record for its file, with success = false and a non-empty error, and has
\* incremented files_failed by one. (Stated for one worker.)
C5_FailureRecorded ==
    [][(/\ concurrent_workers = 1
        /\ Len(returned') = Len(returned) + 1
        /\ ~returned'[Len(returned')].ok)
       => (/\ Len(records') = Len(records) + 1
           /\ records'[Len(records')].file_path = returned'[Len(returned')].file_path
           /\ ~records'[Len(records')].success
           /\ records'[Len(records')].error # ""
           /\ files_failed' = files_failed + 1)]_vars

\* C6: jobs leave the queue in the order they were put; with one worker
\* process_file runs on them in that order, one call at a time.
C6_FifoOrder ==
    /\ IsPrefix(deq_log, enq_log)
    /\ concurrent_workers = 1 =>
          /\ Len(deq_log) - Len(returned) \in {0, 1}
          /\ \A i \in 1..Len(returned) : returned[i].file_path = enq_log[i]

\* one worker has processed two different paths and emptied the queue
C6_Witness ==
    /\ concurrent_workers = 1
    /\ Len(returned) = 2
    /\ returned[1].file_path # returned[2].file_path
    /\ Len(queue) = 0

\* ==================================================== claims on the watcher
\* the handle the loop runs next is a live timer of p
TimerFires(p) ==
    /\ ready # <<>>
    /\ Head(ready).kind = "timer"
    /\ Head(ready).path = p
    /\ ~timers[Head(ready).id].cancelled

\* C2: the callback runs for P, and a job for P is put, only when a debounce
\* timer of P fires and P exists at that moment; a timer that finds P gone
\* calls nothing, puts nothing, and no handle of the loop ever raises.
C2_CallbackOnlyForExisting ==
    /\ []~loop_error
    /\ [][\A p \in Paths :
            /\ (callbacks'[p] # callbacks[p] \/ (enq_log' # enq_log /\ enq_log'[Len(enq_log')] = p))
                  => /\ TimerFires(p)
                     /\ p \in exists
                     /\ callbacks'[p] = callbacks[p] + 1
                     /\ enq_log' = Append(enq_log, p)
                     /\ queue' = Append(queue, p)
            /\ (TimerFires(p) /\ ready' = Tail(ready) /\ p \notin exists)
                  => /\ callbacks' = callbacks
                     /\ queue' = queue
                     /\ drops'[p] = drops[p] + 1]_vars

\* a path was created and deleted again before its timer fired: the timer
\* found nothing, no callback ran and the queue stayed empty
C2_Witness ==
    \E p \in Paths :
        /\ bursts[p] = 1
        /\ drops[p] = 1
        /\ callbacks[p] = 0
        /\ p \notin exists
        /\ queue = <<>>
        /\ ~loop_error

\* nothing of p is left on the loop
Settled(p) ==
    /\ pending[p] = 0
    /\ \A i \in 1..Len(ready) : ready[i].path # p
    /\ \A j \in 1..Len(timers) : timers[j].path = p => timers[j].state = "done"

\* C3: for a path whose events each came less than debounce_seconds after
\* the previous one (one burst), a timer fires once: the callback runs once
\* if the path exists then and not at all otherwise; and it fires after the
\* last event: not while an event of the path is received and waiting on the
\* loop, and only from the timer scheduled last.
C3_OncePerBurst ==
    /\ [](\A p \in Paths : bursts[p] = 1 =>
            /\ callbacks[p] + drops[p] <= 1
            /\ (Settled(p) => callbacks[p] + drops[p] = 1))
    /\ [][\A p \in Paths :
            (bursts[p] = 1 /\ callbacks'[p] + drops'[p] # callbacks[p] + drops[p])
               => /\ \A i \in 1..Len(ready) : ready[i].kind = "schedule" => ready[i].path # p
                  /\ TimerFires(p)
                  /\ Head(ready).id = pending[p]
                  /\ \A j \in 1..Len(timers) : timers[j].path = p => j <= Head(ready).id
                  /\ (callbacks'[p] = callbacks[p] + 1) <=> (p \in exists)
                  /\ (drops'[p] = drops[p] + 1) <=> (p \notin exists)]_vars

\* a burst of at least two events on one path, answered by one callback
C3_Witness ==
    /\ bursts["a.txt"] = 1
    /\ bursts["b.txt"] = 0
    /\ nevents >= 2
    /\ callbacks["a.txt"] = 1
    /\ Settled("a.txt")


\* ------------------------------------------------- claims on the workflow
ParallelGroups == {g \in 1..Len(execution_plan) : Len(group_steps(g)) > 1}
Names(seq) == {seq[i] : i \in 1..Len(seq)}
OutputNames(outs) == {outs[i].name : i \in 1..Len(outs)}
Raised == {s \in StepNames : step_state[s] = "raised"}
HasOutput(outs, s) == \E i \in 1..Len(outs) : outs[i] = [name |-> s, text |-> Text(s)]

\* C7: the result has success = true exactly when no step of the plan
\* raised, and every step that raised, alone in its group or as a member of
\* a parallel group, has an entry in the result's errors.
C7_SuccessIffNoStepRaised ==
    wf_pc = "done" =>
        /\ result.success <=> Raised = {}
        /\ \A s \in Raised : \E i \in 1..Len(result.errors) : result.errors[i].step = s

\* C8: once a parallel group is over, every member of it has run to its
\* end, and every member whose generator call returned is recorded with its
\* text in agent_outputs, in steps_completed and in the context, whatever the
\* other members did.
C8_ParallelMembersRecorded ==
    \A g \in ParallelGroups :
        (wf_pc \notin {"init", "off"} /\ group_index > g) =>
            \A s \in Members(g) :
                /\ Finished(s)
                /\ IsReturned(s) =>
                      /\ HasOutput(agent_outputs, s)
                      /\ s \in Names(steps_completed)
                      /\ intermediate_results[s] = Text(s)
                      /\ wf_pc = "done" => HasOutput(result.agent_outputs, s)

\* a parallel group is over in which the first member raised after the
\* second had returned, and the second is recorded
C8_Witness ==
    /\ wf_pc = "done"
    /\ parallel_steps = << <<"s1">>, <<"s2", "s3">> >>
    /\ finish_order = <<"s1", "s3", "s2">>
    /\ step_state["s2"] = "raised"
    /\ step_state["s3"] = "returned"
    /\ HasOutput(result.agent_outputs, "s3")
    /\ "s3" \in Names(result.steps_completed)

\* the groups of the plan that hold step s
GroupsOf(s) == {g \in 1..Len(execution_plan) : s \in Members(g)}

\* C9: the generator of a step is invoked only when every step of every
\* earlier group of the plan has returned or raised.
C9_GroupsInPlanOrder ==
    [][\A s \in StepNames :
          invoked' = Append(invoked, s) =>
              \A g \in GroupsOf(s) : \A h \in 1..(g - 1) : \A t \in Members(h) :
                  Finished(t)]_vars

\* the only step of the second group has been invoked after the two
\* members of the first group, one of which raised
C9_Witness ==
    /\ parallel_steps = << <<"s3", "s2">>, <<"s1">> >>
    /\ invoked = <<"s3", "s2", "s1">>
    /\ suspended = {"s1", "s2", "s3"}
    /\ step_state["s2"] = "raised"
    /\ step_state["s1"] = "running"

\* C10: in the parallel group of s2 and s3, a generator call that suspended
\* does not return or raise before the other member has been started, and
\* when both calls suspended and returned the collected results hold both
\* outputs.
C10_BothInFlight ==
    parallel_steps = << <<"s2", "s3">> >> =>
        /\ \A s \in {"s2", "s3"} :
              (s \in suspended /\ Finished(s)) => \A t \in {"s2", "s3"} : Started(t)
        /\ (wf_pc = "done" /\ suspended = {"s2", "s3"} /\ Raised = {}) =>
              /\ OutputNames(result.agent_outputs) = {"s2", "s3"}
              /\ HasOutput(result.agent_outputs, "s2")
              /\ HasOutput(result.agent_outputs, "s3")
              /\ Names(result.steps_completed) = {"s2", "s3"}

\* both calls suspended, the second started returned first, and the result
\* holds both outputs
C10_Witness ==
    /\ wf_pc = "done"
    /\ parallel_steps = << <<"s2", "s3">> >>
    /\ suspended = {"s2", "s3"}
    /\ finish_order = <<"s3", "s2">>
    /\ HasOutput(result.agent_outputs, "s2")
    /\ HasOutput(result.agent_outputs, "s3")


\* the previous_output the claim gives a step invoked now: the recorded text
\* of the step input_from names, if there is one
ExpectedPrevious(s) ==
    IF InputFrom(s) # NoStep /\ InputFrom(s) \in Names(steps_completed)
    THEN Text(InputFrom(s)) ELSE NoText

\* C11: the content given to a step's generator is the original content
\* with step_prompt set to the step's template and previous_output set to
\* the recorded text of the step input_from names, or to the empty text when
\* input_from is unset or names a step with no recorded result; in the
\* sequential chain s2 is given the text of s1 and final_output is the text
\* of s3.
C11_PreviousOutput ==
    /\ [](( /\ wf_pc = "done"
            /\ parallel_steps = <<>>
            /\ Raised = {} )
          => /\ payloads["s2"].previous_output = Text("s1")
             /\ result.final_output = Text("s3"))
    /\ [][\A s \in StepNames :
             payloads'[s] # payloads[s] =>
                /\ payloads'[s].content = OriginalContent
                /\ payloads'[s].step_prompt = Template(s)
                /\ payloads'[s].previous_output = ExpectedPrevious(s)]_vars

\* the sequential chain is through, s3 was given the text of s2
C11_Witness ==
    /\ wf_pc = "done"
    /\ parallel_steps = <<>>
    /\ Raised = {}
    /\ payloads["s2"].previous_output = Text("s1")
    /\ payloads["s3"].previous_output = Text("s2")
    /\ result.final_output = Text("s3")

\* the completed step that comes last in the declaration order of steps
LastDeclared(done) ==
    LET last == CHOOSE i \in 1..Len(steps) :
                   /\ steps[i] \in done
                   /\ \A j \in (i + 1)..Len(steps) : steps[j] \notin done
    IN  steps[last]

\* C12: final_output is the text of the completed step that is declared
\* last in steps, whatever the order of the groups and of their members, and
\* the empty text when no step completed.
C12_FinalOutputByDeclaration ==
    wf_pc = "done" =>
        result.final_output =
            IF result.steps_completed = <<>> THEN NoText
            ELSE Text(LastDeclared(Names(result.steps_completed)))

\* the steps named in some group of the plan
Planned == UNION {Names(execution_plan[g]) : g \in 1..Len(execution_plan)}

C14_FailureDoesNotStop ==
    wf_pc = "done" =>
        /\ \A g \in 1..Len(execution_plan) : \A s \in Members(g) : Finished(s)
        /\ Len(result.errors) = Cardinality(Raised)


\* ============================================ claims on shutdown and files
\* the worker tasks that are alive, and those inside process_file
LiveWorkers == {w \in WorkerIds : pc[w] \in {"idle", "generate", "write"}}
InFlight == {w \in WorkerIds : pc[w] \in {"generate", "write"}}

\* C15: when stop() has returned, every worker task has ended and the
\* worker list is empty, no observer started by the processor is still
\* running, and the metrics summary in storage is the current one; what is
\* left in the queue stays there.
C15_StopPostcondition ==
    main = "stopped" =>
        /\ \A w \in WorkerIds : pc[w] = "none"
        /\ ~watching
        /\ leaked = 0
        /\ metrics_file = save(Metrics, now)

\* C16: a worker task cancelled while it waits on the queue or is inside
\* process_file ends as cancelled at that step and stays so: the step adds
\* no record, counts no failure, returns nothing from process_file and takes
\* nothing from the queue.
C16_CancellationPropagates ==
    /\ [](\A w \in WorkerIds : cancel_sent[w] => pc[w] \in {"cancelled", "none"})
    /\ [][\A w \in WorkerIds :
             (cancel_sent'[w] /\ ~cancel_sent[w]) =>
                /\ pc'[w] = "cancelled"
                /\ records' = records
                /\ files_failed' = files_failed
                /\ files_processed' = files_processed
                /\ returned' = returned
                /\ queue' = queue]_vars

\* the worker was cancelled inside process_file, with its record open
C16_Witness ==
    /\ cancel_sent[1]
    /\ pc[1] = "cancelled"
    /\ current # NoRecord
    /\ Len(deq_log) = 1
    /\ records = <<>>
    /\ returned = <<>>

\* C17: a process_file call that returns False and adds a failed record
\* has written no output artifact. (Stated for one worker.)
C17_NoOutputOnFailure ==
    [][(/\ concurrent_workers = 1
        /\ Len(returned') = Len(returned) + 1
        /\ ~returned'[Len(returned')].ok
        /\ Len(records') = Len(records) + 1
        /\ ~records'[Len(records')].success)
       => outputs' = outputs]_vars

\* C18: a call whose upsert did not store (it returned False, or the index
\* raised) closes its record with success = true and returns True, unless
\* metrics.save raises afterwards.
C18_MemoryFailureIgnored ==
    [][(/\ Len(upserts') = Len(upserts) + 1
        /\ upserts'[Len(upserts')].result # "true")
       => (/\ Len(records') = Len(records) + 1
           /\ records'[Len(records')].file_path = upserts'[Len(upserts')].file_path
           /\ records'[Len(records')].success
           /\ files_succeeded' = files_succeeded + 1
           /\ files_failed' = files_failed
           /\ Len(returned') = Len(returned) + 1
           /\ returned'[Len(returned')].ok
                 \/ returned'[Len(returned')].raised = "save")]_vars

\* the index raised in upsert and the call returned True with its record
\* a success
C18_Witness ==
    /\ memory_mode = "raising"
    /\ Len(upserts) = 1
    /\ upserts[1].result = "false"
    /\ Len(returned) = 1
    /\ returned[1].ok
    /\ Len(records) = 1
    /\ records[1].success

\* how often path p is in a sequence of paths
Count(seq, p) == Cardinality({i \in 1..Len(seq) : seq[i] = p})

C20_AtMostNWorkers ==
    /\ Cardinality(LiveWorkers) <= concurrent_workers
    /\ Cardinality(InFlight) <= concurrent_workers

\* =================================================== claims on the scan
\* the jobs a step has put into the queue
Put == SubSeq(enq_log', Len(enq_log) + 1, Len(enq_log'))
\* the glob of some configured extension finds p
Found(p) ==
    /\ p \in exists
    /\ \E i \in 1..Len(supported_extensions) :
          fnmatch(Chars(p), <<"*">> \o Chars(supported_extensions[i]))

\* C21: a start with process_existing = true puts the files of the scan
\* while the watcher is not yet observing, so before any job of the watcher,
\* and it puts each file the scan finds exactly once.
C21_ScanBeforeWatcher ==
    [][(main = "init" /\ main' = "running" /\ enq_log' # enq_log)
         => /\ ~watching
            /\ enq_log = <<>>
            /\ \A p \in Paths : Count(Put, p) = IF Found(p) THEN 1 ELSE 0]_vars

\* C23: the list the scan returns holds no path twice, whatever the
\* configured list of extensions, and each file it finds once.
C23_ScanHasNoDuplicates ==
    \A p \in Paths : Count(existing, p) <= 1

\* ================================================= claims on the events
\* the names the ignore globs match, and the names whose lower-cased
\* extension is not supported by the default configuration
IgnoredNames == {"c.tmp", ".h.txt"}
UnsupportedNames == {"c.tmp", "N.BIN"}
FilteredEvent(kind, path, is_directory) ==
    \/ kind \notin {"created", "modified"}
    \/ is_directory
    \/ path \in IgnoredNames
    \/ path \in UnsupportedNames

\* C22: an event of a directory, of a file whose name matches an ignore
\* glob, of a file whose lower-cased extension is not supported, or of a
\* kind other than created and modified schedules nothing: the loop gets
\* no handle and no timer for it, and no callback or job ever comes of it.
C22_FilteredEventsScheduleNothing ==
    /\ [](/\ \A i \in 1..Len(ready) : ready[i].path \in Paths
          /\ \A j \in 1..Len(timers) : timers[j].path \in Paths
          /\ \A p \in OtherPaths : pending[p] = 0 /\ callbacks[p] = 0
          /\ \A i \in 1..Len(enq_log) : enq_log[i] \in Paths)
    /\ [][\A kind \in EventKinds, path \in EventPaths, is_directory \in BOOLEAN :
            (FilteredEvent(kind, path, is_directory) /\ dispatch(kind, path, is_directory))
               => UNCHANGED <<ready, timers, pending, callbacks, queue, enq_log>>]_vars

\* events were delivered and time has passed, and all were filtered: the
\* loop never saw a handle or a timer
C22_Witness ==
    /\ nevents >= 2
    /\ now >= Debounce
    /\ ready = <<>>
    /\ timers = <<>>
    /\ queue = <<>>

\* ================================================ claims on the metrics
\* the fields of a record that a saved file keeps
SameRecord(r, q) ==
    /\ r.file_path = q.file_path
    /\ r.file_type = q.file_type
    /\ r.file_size = q.file_size
    /\ r.success = q.success
    /\ r.error = q.error

\* C24: loading the file a collector was saved to gives a collector with
\* the same four counters and with the last min(n, 100) of its n records,
\* in order, each with its path, type, size, success flag and error.
C24_SaveLoadRoundTrip ==
    [][(loaded' # loaded /\ metrics_file = save(Metrics, now))
         => LET n == Len(records)
                k == Len(loaded'.records)
            IN /\ loaded'.files_processed = files_processed
               /\ loaded'.files_succeeded = files_succeeded
               /\ loaded'.files_failed = files_failed
               /\ loaded'.total_bytes_processed = total_bytes_processed
               /\ k = IF n < 100 THEN n ELSE 100
               /\ \A i \in 1..k : SameRecord(loaded'.records[i], records[n - k + i])]_vars

\* a collector of 101 records was saved and the file loaded: the loaded
\* collector counts 101 files and holds 100 records
C24_Witness ==
    /\ Len(records) = 101
    /\ metrics_file = save(Metrics, now)
    /\ loaded.files_processed = 101
    /\ Len(loaded.records) = 100
    /\ SameRecord(loaded.records[100], records[101])

\* C25: two calls of get_summary with no start_processing or end_processing
\* between them return the same value in every field, however much time
\* passed between them.
C25_SummaryStable ==
    [][(summary # NoSummary /\ summary' # NoSummary) => summary' = summary]_vars

\* a file from_file does not load to the end
Corrupt(file) ==
    \/ file.kind = "garbage"
    \/ /\ file.kind = "json"
       /\ \/ file.data.summary.started_at.text # "iso"
          \/ \E i \in 1..Len(file.data.records) :
                ~({"file_path", "file_type", "file_size", "success"}
                    \subseteq file.data.records[i].has)

\* C26: from a missing or a corrupt file the loader returns an empty
\* collector, with the four counters 0 and no record, never a part of what
\* the file held.
C26_LoadsAllOrNothing ==
    [][(loaded' # loaded /\ (metrics_file.kind = "missing" \/ Corrupt(metrics_file)))
         => /\ loaded'.files_processed = 0
            /\ loaded'.files_succeeded = 0
            /\ loaded'.files_failed = 0
            /\ loaded'.total_bytes_processed = 0
            /\ loaded'.records = <<>>]_vars

\* ======================================= claims on the pending timers
\* timer j is live: scheduled, not cancelled and not yet run
Live(j) == ~timers[j].cancelled /\ timers[j].state \in {"scheduled", "ready"}

\* C27: whatever the order of the events and of the handles the loop runs,
\* the pending map holds for each path at most one timer, and that one is
\* live: a timer is cancelled before another takes its place, a timer that
\* fires removes its entry before it looks for the file or calls back, and
\* removing the entry never fails.
C27_PendingIsLive ==
    /\ [](/\ ~loop_error
          /\ \A p \in AllPaths : pending[p] # 0 =>
                /\ pending[p] \in 1..Len(timers)
                /\ timers[pending[p]].path = p
                /\ Live(pending[p])
          /\ \A j \in 1..Len(timers) : Live(j) => pending[timers[j].path] = j)
    /\ [][\A p \in Paths :
            /\ (pending[p] # 0 /\ pending'[p] \notin {0, pending[p]})
                  => timers'[pending[p]].cancelled
            /\ (callbacks'[p] # callbacks[p] \/ drops'[p] # drops[p])
                  => pending[p] # 0 /\ pending'[p] = 0]_vars

\* a second event of a path came while its timer was pending: the first
\* timer is cancelled, the second is in the map and due, and later fires
C27_Witness ==
    \E p \in Paths :
        /\ Len(timers) >= 2
        /\ timers[1].path = p
        /\ timers[1].cancelled
        /\ timers[2].path = p
        /\ pending[p] = 2
        /\ timers[2].state = "ready"

\* ============================================ claims on the orchestrator
\* the keys of context.intermediate_results
ContextKeys == {s \in StepNames : intermediate_results[s] # NoText}

Texts == {Text(s) : s \in StepNames}
OtherTexts == {OtherText(s) : s \in StepNames}

\* C28: in the lifetime of an orchestrator at most one generator is
\* constructed per role: the steps of a role running at once in a parallel
\* group, and the steps of two execute_workflow calls in flight on the
\* orchestrator, all get the one generator constructed for the role.
C28_OneGeneratorPerRole ==
    /\ \A r \in Roles :
          /\ constructions[r] <= 1
          /\ r \in generators <=> constructions[r] = 1
    /\ \A s \in StepNames :
          /\ used[s] \in {0, 1}
          /\ other.used[s] \in {0, 1}
          /\ (s \in Names(invoked) => used[s] = 1)
          /\ (other.payloads[s] # NoPayload => other.used[s] = 1)

\* the two members of a parallel group of the first call and a step of the
\* second call, all of the role engineer, are suspended in their generator
\* call at once, and one generator was constructed for the role
C28_Witness ==
    /\ step_state["s2"] = "running"
    /\ step_state["s3"] = "running"
    /\ other.pc = "single"
    /\ other.state["s2"] = "running"
    /\ constructions["engineer"] = 1
    /\ used["s2"] = 1
    /\ used["s3"] = 1
    /\ other.used["s2"] = 1

\* C30: two execute_workflow calls in flight on one orchestrator share no
\* context: a step of one call gets as previous_output only a result of its
\* own call, and the agent_outputs, steps_completed and errors of a result
\* hold only what its own call produced, though the step names are the same.
C30_CallsShareNoContext ==
    /\ \A s \in StepNames :
          /\ payloads[s].previous_output \in Texts \cup {NoText}
          /\ other.payloads[s].previous_output \in OtherTexts \cup {NoText}
          /\ intermediate_results[s] \in Texts \cup {NoText}
          /\ other.context[s] \in OtherTexts \cup {NoText}
          /\ (other.payloads[s] # NoPayload /\ InputFrom(s) # NoStep) =>
                other.payloads[s].previous_output =
                    IF other.state[InputFrom(s)] = "returned"
                    THEN OtherText(InputFrom(s)) ELSE NoText
    /\ wf_pc = "done" =>
          /\ \A i \in 1..Len(result.agent_outputs) :
                /\ result.agent_outputs[i].text = Text(result.agent_outputs[i].name)
                /\ step_state[result.agent_outputs[i].name] = "returned"
          /\ \A i \in 1..Len(result.steps_completed) :
                step_state[result.steps_completed[i]] = "returned"
          /\ \A i \in 1..Len(result.errors) :
                step_state[result.errors[i].step] = "raised"
    /\ other.pc = "done" =>
          /\ \A i \in 1..Len(other.result.agent_outputs) :
                /\ other.result.agent_outputs[i].text
                      = OtherText(other.result.agent_outputs[i].name)
                /\ other.state[other.result.agent_outputs[i].name] = "returned"
          /\ \A i \in 1..Len(other.result.steps_completed) :
                other.state[other.result.steps_completed[i]] = "returned"
          /\ \A i \in 1..Len(other.result.errors) :
                other.state[other.result.errors[i].step] = "raised"

\* both calls have returned after running interleaved: in the first s1
\* returned and s2 raised, in the second s1 raised and s2 returned, and s3
\* of the second got the text of its own s2
C30_Witness ==
    /\ wf_pc = "done"
    /\ other.pc = "done"
    /\ step_state["s1"] = "returned"
    /\ step_state["s2"] = "raised"
    /\ other.state["s1"] = "raised"
    /\ other.state["s2"] = "returned"
    /\ other.payloads["s3"].previous_output = OtherText("s2")
    /\ payloads["s2"].previous_output = Text("s1")
    /\ Names(result.steps_completed) \cap Names(other.result.steps_completed) = {}

\* ============================================ claims on retries and groups
\* how often step s is named in the plan, over all groups
OccurrencesInPlan(s) ==
    Cardinality({gi \in (1..Len(execution_plan)) \X (1..Len(steps)) :
                    /\ gi[2] <= Len(execution_plan[gi[1]])
                    /\ execution_plan[gi[1]][gi[2]] = s})

\* C31: a step is never attempted again: within one execute_workflow call
\* the generator is invoked at most once for each place the step has in the
\* plan, whatever its max_retries and whether or not the invocation raised.
C31_NoRetry ==
    \A s \in StepNames : Count(invoked, s) <= OccurrencesInPlan(s)

\* the sequential workflow is through; s2, whose max_retries is 2, raised
\* and was invoked once
C31_Witness ==
    /\ wf_pc = "done"
    /\ parallel_steps = <<>>
    /\ max_retries("s2") = 2
    /\ step_state["s2"] = "raised"
    /\ "s2" \in suspended
    /\ Count(invoked, "s2") = 1
    /\ Len(result.errors) = 1

\* ====================================== claims on the persisted artifact
\* the file is as save wrote it
AsSaved(file) ==
    /\ file.kind = "json"
    /\ is_isoformat(file.data.summary.started_at)
    /\ \A i \in 1..Len(file.data.records) : file.data.records[i].has = RecordKeys

\* the file holds the collector as it was when n records were closed: the
\* counters of all n, and the last k of them in the order they were closed
SavedAfter(file, n, k) ==
    /\ Len(file.data.records) = k
    /\ \A i \in 1..k :
          LET r == records[n - k + i]
              f == file.data.records[i]
          IN /\ f.file_path = r.file_path
             /\ f.file_size = r.file_size
             /\ f.success = r.success
             /\ f.error = r.error
             /\ f.duration_seconds = r.end_time - r.start_time
    /\ file.data.summary.files_processed = n
    /\ file.data.summary.files_succeeded
          = Cardinality({i \in 1..n : records[i].success})
    /\ file.data.summary.files_failed
          = Cardinality({i \in 1..n : ~records[i].success})

\* C32: the record list of the persisted metrics file never has more than
\* 100 entries; it is the most recently closed records, in the order they
\* were closed, and the persisted counters count every file processed since
\* the collector started.
C32_FileKeepsLastRecords ==
    AsSaved(metrics_file) =>
        /\ Len(metrics_file.data.records) <= KeepLast
        /\ \E n \in 0..Len(records) :
              SavedAfter(metrics_file, n, IF n > KeepLast THEN KeepLast ELSE n)

\* a file saved when more records were closed than a file keeps: it holds
\* 100 records and counts 101 files
C32_Witness ==
    /\ AsSaved(metrics_file)
    /\ Len(records) = KeepLast + 1
    /\ Len(metrics_file.data.records) = KeepLast
    /\ metrics_file.data.summary.files_processed = KeepLast + 1
    /\ metrics_file.data.records[KeepLast].file_path = records[KeepLast + 1].file_path

\* the declared steps a group of the plan names
Declared(g) == Names(execution_plan[g]) \cap StepNames

\* C33: a group that names two or more declared steps is dispatched through
\* one parallel invocation whose steps are exactly the declared steps the
\* group names: the invocation is made once for the group, with all of them
\* and no other, and the loop leaves the group only from that invocation, so
\* none of its steps is run on its own.
C33_GroupDispatchedOnce ==
    /\ [][(wf_pc = "loop" /\ wf_pc' = "gather") =>
             /\ Cardinality(Declared(group_index)) >= 2
             /\ group_index' = group_index
             /\ {s \in StepNames : step_state'[s] = "created"} = Declared(group_index)
             /\ \A s \in StepNames \ Declared(group_index) :
                   step_state'[s] = step_state[s]]_vars
    /\ [][group_index' # group_index =>
             /\ group_index' = group_index + 1
             /\ Cardinality(Declared(group_index)) >= 2 =>
                   (wf_pc = "gather" /\ wf_pc' = "loop")]_vars
    /\ [][\A s \in StepNames :
             (invoked' = Append(invoked, s)
                /\ \E g \in GroupsOf(s) : Cardinality(Declared(g)) >= 2)
             => (wf_pc = "gather" /\ wf_pc' = "gather" /\ s \in Declared(group_index))]_vars

\* the third group of a plan is in its parallel invocation with its two
\* steps, after a group that named one declared step and an unknown name
\* ran that step on its own
C33_Witness ==
    /\ parallel_steps = << <<"zz">>, <<"s1", "zz">>, <<"s2", "s3">> >>
    /\ wf_pc = "gather"
    /\ group_index = 3
    /\ step_state["s2"] = "created"
    /\ step_state["s3"] = "created"
    /\ Finished("s1")
    /\ invoked = <<"s1">>

\* ================================================= claims on the workers
\* C34: in a started pipeline with no shutdown and no cancellation, where
\* the loop is fair and every process_file call returns, every job put into
\* the queue is eventually taken by a worker, which calls process_file for
\* it, whether the files before it failed or not.
C34_EveryJobTaken ==
    \A n \in 1..(MaxJobs + Cardinality(Paths)) :
        (Len(enq_log) >= n) ~>
            (/\ Len(deq_log) >= n
             /\ deq_log[n] = enq_log[n]
             /\ Len(returned) + Cardinality(InFlight) >= n)

\* one worker: the first job failed, and the job put behind it was taken
\* and has succeeded
C34_Witness ==
    /\ concurrent_workers = 1
    /\ Len(enq_log) = 2
    /\ Len(deq_log) = 2
    /\ Len(returned) = 2
    /\ ~returned[1].ok
    /\ returned[2].ok
    /\ returned[1].file_path # returned[2].file_path
    /\ ~shutdown

\* C35: no two workers are inside process_file for the same path at the
\* same time, and no two calls in flight write the same output artifact,
\* also when a path is put into the queue again while an earlier job for
\* it is being processed.
C35_OneCallPerPath ==
    \A v, w \in InFlight : v # w => cur[v] # cur[w]

\* C36: once stop() has returned no debounce timer calls the callback and
\* the queue receives no job: a timer still pending when the watcher was
\* stopped does not put its path afterwards.
C36_NoCallbackAfterStop ==
    [][main = "stopped" =>
          /\ callbacks' = callbacks
          /\ enq_log' = enq_log
          /\ queue' = queue]_vars

\* =================================== claims on process_file with a workflow
\* C37: the outcome of process_file with a workflow name does not depend on
\* WorkflowResult.success: when execute_workflow has returned, also with
\* success = false and errors, the call writes the output artifact from
\* final_output, closes its record with success = true and returns True
\* (unless the write of the artifact or metrics.save raises).
C37_OutcomeIgnoresWorkflowSuccess ==
    [][(/\ wf_pc = "done"
        /\ Len(returned') = Len(returned) + 1
        /\ returned'[Len(returned')].raised \notin {"write", "save"})
       => (/\ returned'[Len(returned')].ok
           /\ cur[1] \in outputs'
           /\ artifact' = result.final_output
           /\ Len(records') = Len(records) + 1
           /\ records'[Len(records')].file_path = cur[1]
           /\ records'[Len(records')].success
           /\ files_succeeded' = files_succeeded + 1
           /\ files_failed' = files_failed)]_vars

\* the workflow returned success = false with an error for s3, and the call
\* wrote the text of s2 as its artifact and returned True
C37_Witness ==
    /\ wf_pc = "done"
    /\ ~result.success
    /\ Len(result.errors) = 1
    /\ result.final_output = Text("s2")
    /\ Len(returned) = 1
    /\ returned[1].ok
    /\ artifact = Text("s2")
    /\ "a.txt" \in outputs
    /\ Len(records) = 1
    /\ records[1].success
    /\ files_succeeded = 1

\* ============================================ claims on parallel siblings
\* C38: the results of a parallel group are recorded only when every member
\* of the group has finished, and a member whose input_from names a member
\* of the same group is given what an earlier group recorded for that step,
\* or the empty text when no earlier group recorded it, whatever the
\* sibling has done by then.
C38_SiblingResultUnseen ==
    /\ [][(wf_pc = "gather" /\ \E s \in Declared(group_index) : ~Finished(s))
            => /\ intermediate_results' = intermediate_results
               /\ agent_outputs' = agent_outputs
               /\ steps_completed' = steps_completed]_vars
    /\ [][\A s \in StepNames :
            (/\ wf_pc = "gather"
             /\ invoked' = Append(invoked, s)
             /\ InputFrom(s) \in Declared(group_index))
            => payloads'[s].previous_output =
                  IF \E g \in 1..(group_index - 1) : InputFrom(s) \in Declared(g)
                  THEN intermediate_results[InputFrom(s)]
                  ELSE NoText]_vars

\* s2 and s3 in one group: s2 had returned when s3 was started, and s3 was
\* given the empty text
C38_Witness ==
    /\ parallel_steps = << <<"s2", "s3">> >>
    /\ wf_pc = "gather"
    /\ invoked = <<"s2", "s3">>
    /\ finish_order = <<"s2">>
    /\ step_state["s2"] = "returned"
    /\ step_state["s3"] = "running"
    /\ payloads["s3"].previous_output = NoText

\* s2 ran in an earlier group and again beside s3: s3 was given what the
\* earlier group recorded, though s2 had raised beside it
C38_WitnessEarlier ==
    /\ parallel_steps = << <<"s2">>, <<"s2", "s3">> >>
    /\ wf_pc = "gather"
    /\ invoked = <<"s2", "s2", "s3">>
    /\ step_state["s2"] = "raised"
    /\ payloads["s3"].previous_output = Text("s2")

\* ================================================ claims on the collector
RECURSIVE SumSizes(_)
SumSizes(rs) == IF rs = <<>> THEN 0 ELSE Head(rs).file_size + SumSizes(Tail(rs))

\* C39: for a collector that starts empty, after any sequence of
\* start_processing and end_processing calls, from whatever callers:
\* files_processed = files_succeeded + files_failed = the number of records,
\* total_bytes_processed is the sum of the sizes of the records, every
\* record has an end time, and end_processing called with no open record
\* changes nothing.
C39_CountersMatchRecords ==
    /\ [](/\ files_processed = files_succeeded + files_failed
          /\ files_processed = Len(records)
          /\ files_succeeded = Cardinality({i \in 1..Len(records) : records[i].success})
          /\ total_bytes_processed = SumSizes(records)
          /\ \A i \in 1..Len(records) :
                /\ records[i].end_time \in 0..now
                /\ records[i].end_time >= records[i].start_time)
    /\ [][(current = NoRecord /\ \E success \in BOOLEAN : EndProcessing(success))
            => UNCHANGED metricVars]_vars

\* at time 3 the collector holds one record, of b.txt, opened at 1 and
\* closed at 2, it counts one file and no record is open
C39_Witness ==
    /\ Len(records) = 1
    /\ records[1].file_path = "b.txt"
    /\ records[1].start_time = 1
    /\ records[1].end_time = 2
    /\ files_processed = 1
    /\ total_bytes_processed = FileSize("b.txt")
    /\ current = NoRecord
    /\ summary = NoSummary
    /\ now = 3

\* =============================================== claims on unknown names
\* the names of the plan that are declared steps
Resolved == UNION {Declared(g) : g \in 1..Len(execution_plan)}

\* C40: a name of parallel_steps that no declared step has is skipped: no
\* generator is invoked for it and no error is added; a group none of whose
\* names resolves is skipped as a whole; the other groups still run; and a
\* workflow whose groups resolve to nothing returns success = true with
\* empty steps_completed and an empty final_output.
C40_UnknownNamesSkipped ==
    /\ [](/\ Names(invoked) \subseteq Resolved
          /\ \A i \in 1..Len(errors) :
                errors[i].step \in Resolved /\ step_state[errors[i].step] = "raised"
          /\ wf_pc = "done" =>
                /\ \A s \in Resolved : Finished(s)
                /\ Resolved = {} =>
                      /\ result.success
                      /\ result.steps_completed = <<>>
                      /\ result.final_output = NoText
                      /\ result.agent_outputs = <<>>
                      /\ result.errors = <<>>)
    /\ [][(/\ wf_pc = "loop"
           /\ group_index <= Len(execution_plan)
           /\ Declared(group_index) = {}
           /\ wfVars' # wfVars)
          => /\ group_index' = group_index + 1
             /\ UNCHANGED <<wf_pc, generators, step_state, intermediate_results,
                            agent_outputs, steps_completed, errors, invoked, payloads>>]_vars

\* a workflow whose two groups name no declared step has returned: no
\* generator was invoked and the result is a success with nothing in it
C40_Witness ==
    /\ parallel_steps = << <<"zz">>, <<"yy", "zz">> >>
    /\ wf_pc = "done"
    /\ group_index = 3
    /\ invoked = <<>>
    /\ result.success
    /\ result.steps_completed = <<>>
    /\ result.final_output = NoText

====
